---- MODULE Spec2Model ----
(***************************************************************************)
(* Model of tcpclient (src/tcpclient/src).                                 *)
(*                                                                         *)
(* Spec           the connection manager (network/connection.rs): the      *)
(*                command loop handle_network_communications, the channel  *)
(*                conn_tx/conn_rx that carries the write half of the       *)
(*                connection, and the send tasks it spawns.                *)
(* SpecRecv       the receiver task of one connection                      *)
(*                (network/receiver.rs) and the changes of the shared      *)
(*                encoding mode.                                           *)
(* SpecValid      the range checks of network/scanner.rs applied to the    *)
(*                texts of the scan panel.                                 *)
(* SpecScan       the scan panel (ui/panels.rs), the ScanIp handler of the *)
(*                command loop and the scan tasks (network/scanner.rs).    *)
(* SpecScanCancel SpecScan with a step that clears the running flag of a   *)
(*                scan in progress.                                        *)
(* SpecScanTask   one scan task (scan_ip_range) from its spawn on, on      *)
(*                forms whose ports fill more than one chunk or lie at the *)
(*                end of the range of u16.                                 *)
(* SpecSession    the command loop, its send tasks and the receivers it    *)
(*                spawns, for a collaborator that connects, sends and      *)
(*                connects again.                                          *)
(* SpecConv       ip_to_u32 and u32_to_ip (network/scanner.rs) applied to  *)
(*                address texts and address numbers.                       *)
(* SpecHex        hex_to_bytes (network/connection.rs) and                 *)
(*                is_valid_hex_string (ui/panels.rs) applied to texts.     *)
(* SpecPartition  the split of the address range of scan_ip_range into   *)
(*                batches, with its 32-bit arithmetic.                     *)
(* SpecSlot       the number of write halves in the channel conn_tx/       *)
(*                conn_rx and of the tasks that hold one, counted.         *)
(* SpecScanTaskCancel  SpecScanTask with a step that clears the running    *)
(*                flag of the scan in progress.                            *)
(*                                                                         *)
(* Atomicity.  The command loop runs in one task; the send tasks run on    *)
(* other worker threads.  The loop suspends for an unbounded time only in  *)
(* TcpStream::connect and, on a full channel, in conn_tx.send, so Connect   *)
(* is split there (ConnectBegin, ConnectFinish, ConnectPut); the other     *)
(* handlers touch the shared state (channel, message list) in single       *)
(* operations and are one action each.  A send task is split at its socket *)
(* write, at its report and at the return of the write half to the         *)
(* channel.  Socket ids are 1, 2, ... in the order the sockets are opened; *)
(* the write half of socket c is the value c in conn_rx.  A receiver is    *)
(* split at its read and at the load of the encoding mode.  A batch task   *)
(* of a scan is split at each check of the cancellation and at join_all;   *)
(* each probe returns in a step of its own.                                *)
(***************************************************************************)
EXTENDS Integers, Sequences, FiniteSets, TLC

\* ------------------------------------------------------------------ bounds
\* number of inputs of the environment in one behaviour: the commands the
\* collaborator submits and the secondary I/O faults (set_nodelay, into_std,
\* creation of the data file, write to the data file)
MaxEnv == 5
\* number of commands waiting in the command queue
MaxQueue == 2
\* number of inputs of the environment of a receiver in one behaviour: the
\* outcomes of its reads, the faults of its writes to the data file and the
\* changes of the encoding mode
MaxRecvEnv == 3
\* number of clicks on the button of the scan panel in one behaviour
MaxClicks == 3
\* number of characters of a text that is decoded as a hex string
MaxHexLen == 4
\* number of write halves that exist at one time, in the channel, in send
\* tasks and in the Connect handler
MaxHandles == 21

\* ------------------------------------------------------- program constants
\* capacity of the channel that carries the write half
ConnChanCap == 20
\* capacity of the command queue
CmdChanCap == 100

\* ------------------------------------------------------------------ inputs
\* the (text, encoding) pairs the collaborator sends: a text of hex digits
\* in both encodings, and a text that is no hex string in Hex encoding
SendInputs ==
    { [data |-> << "4", "1" >>, enc |-> "Utf8"],
      [data |-> << "4", "1" >>, enc |-> "Hex"],
      [data |-> << "4", "eacute" >>, enc |-> "Hex"] }
\* EncodingMode
EncodingMode == {"Utf8", "Hex"}
\* addresses the collaborator connects to
Addrs == {"srv"}
\* the chunks a read of the socket returns: ASCII text, a two-byte
\* character, a truncated two-byte character, and bytes that are no UTF-8
\* with a byte below 16
RecvChunks == { << 52, 49 >>, << 195, 169 >>, << 195 >>, << 10, 255 >> }
\* the io::ErrorKind of a failed read, as the receiver tells them apart
ErrorKinds == {"ConnectionReset", "ConnectionAborted", "TimedOut", "WouldBlock",
               "Interrupted", "BrokenPipe", "Other"}

VARIABLES
    rx,              \* command queue (mpsc::Receiver<Message>)
    submitted,       \* number of commands submitted so far
    mpc,             \* position of the command loop: "recv" | "connecting" | "putting"
    cur_cmd,         \* the Connect command being handled, with the locals of its handler
    has_connection,  \* the flag of the command loop
    conn_rx,         \* contents of the channel conn_tx/conn_rx (write halves)
    data_file,       \* 0 = None, c = the data file created for connection c
    nconn,           \* number of sockets opened so far; socket ids are 1..nconn
    send_tasks,      \* the spawned send tasks, in spawn order
    messages,        \* the event sink (Vec<(timestamp, message)>)
    written,         \* bytes written to sockets: sequence of [conn, bytes]
    receivers,       \* sockets over whose read half a receiver task was spawned
    faults,          \* number of secondary I/O faults so far
    handled,         \* number of commands the command loop has taken off the queue
    encoding_mode,   \* the shared encoding mode (Arc<Mutex<EncodingMode>>)
    recv_tasks,      \* the receiver tasks (handle_data_reception), in spawn order
    recv_env,        \* number of inputs of the receiver's environment so far
    form,            \* the text fields of the scan panel (start_ip, end_ip, start_port, end_port, timeout_ms)
    checked,         \* the results of the range checks applied to the form
    conv,            \* the arguments of the conversions (an address text and an address number, or a hex text) with their results
    app_is_scanning, \* app.is_scanning, the flag of the scan panel
    clicks,          \* number of clicks on the button of the scan panel so far
    scan_sends,      \* the ScanIp commands whose tx.send is pending
    scan_results,    \* app.scan_results
    scan_logs,       \* app.scan_logs (the timestamps are left out)
    scans,           \* the scan tasks (scan_ip_range), in spawn order
    cpu_cores        \* num_cpus::get()

\* the state of the receiver tasks
recv_vars == << encoding_mode, recv_tasks, recv_env >>

\* the state of the range checks
valid_vars == << form, checked, conv >>

\* the state of the scan panel and of the scan tasks
scan_vars == << app_is_scanning, clicks, scan_sends, scan_results, scan_logs,
                scans, cpu_cores >>

\* the state outside the command loop and its send tasks
ext_vars == << recv_vars, valid_vars, scan_vars >>

vars == << rx, submitted, mpc, cur_cmd, has_connection, conn_rx, data_file,
           nconn, send_tasks, messages, written, receivers, faults, handled,
           ext_vars >>

\* the scan panel at construction: 127.0.0.1 to 127.0.0.10, ports 8888 to
\* 8889, timeout 500
DefaultForm ==
    [start_ip |-> << "1", "2", "7", ".", "0", ".", "0", ".", "1" >>,
     end_ip |-> << "1", "2", "7", ".", "0", ".", "0", ".", "1", "0" >>,
     start_port |-> << "8", "8", "8", "8" >>,
     end_port |-> << "8", "8", "8", "9" >>,
     timeout_ms |-> << "5", "0", "0" >>]

\* the scan panel and the scanner at construction
ScanIdle ==
    /\ app_is_scanning = FALSE
    /\ clicks = 0
    /\ scan_sends = << >>
    /\ scan_results = << >>
    /\ scan_logs = << >>
    /\ scans = << >>

\* no range check has been applied
NotChecked == [ip_range |-> "none", port_range |-> "none"]

\* the address text and the address number of the default form, and no
\* conversion applied: as_u32 and as_text are the results of ip_to_u32 on the
\* text and of u32_to_ip on the number, text_back and u32_back those of the
\* conversions back
NotConverted(text, u32) ==
    [text |-> text, u32 |-> u32, text_done |-> FALSE, as_u32 |-> << >>,
     text_back |-> << >>, u32_done |-> FALSE, as_text |-> << >>,
     u32_back |-> << >>]

\* ------------------------------------------------------------- pure helpers
\* UTF-8 bytes of one character; "eacute" stands for the two-byte U+00E9
CharBytes(c) ==
    CASE c = " " -> << 32 >>
      [] c = "+" -> << 43 >>
      [] c = "0" -> << 48 >>
      [] c = "1" -> << 49 >>
      [] c = "4" -> << 52 >>
      [] c = "F" -> << 70 >>
      [] c = "a" -> << 97 >>
      [] c = "g" -> << 103 >>
      [] c = "eacute" -> << 195, 169 >>

RECURSIVE as_bytes(_)
\* str::as_bytes: the UTF-8 bytes of a text
as_bytes(s) ==
    IF s = << >> THEN << >> ELSE CharBytes(Head(s)) \o as_bytes(Tail(s))

\* str::replace(" ", ""), on the bytes of the text
RemoveSpaces(b) == SelectSeq(b, LAMBDA x : x # 32)

\* str::is_char_boundary at byte index i (0-based) of the byte string b
IsCharBoundary(b, i) ==
    \/ i = 0
    \/ i = Len(b)
    \/ /\ i < Len(b)
       /\ ~ (b[i + 1] >= 128 /\ b[i + 1] < 192)

\* a conversion of one byte to a hex digit that knows no capital letters
HexDigit_lowercase(x) ==
    IF x >= 48 /\ x <= 57 THEN x - 48
    ELSE IF x >= 97 /\ x <= 102 THEN x - 87
    ELSE -1

\* char::to_digit(16) of one byte; -1 when it is no hex digit
HexDigit(x) ==
    IF x >= 48 /\ x <= 57 THEN x - 48
    ELSE IF x >= 97 /\ x <= 102 THEN x - 87
    ELSE IF x >= 65 /\ x <= 70 THEN x - 55
    ELSE -1

\* u8::from_str_radix(two bytes, 16); -1 for Err
FromStrRadix16(x, y) ==
    IF x = 43
    THEN HexDigit(y)
    ELSE IF HexDigit(x) >= 0 /\ HexDigit(y) >= 0
         THEN 16 * HexDigit(x) + HexDigit(y)
         ELSE -1

RECURSIVE HexLoop(_, _)
\* the loop of hex_to_bytes from byte index i (0-based) on
HexLoop(b, i) ==
    IF i >= Len(b) THEN [panic |-> FALSE, bytes |-> << >>]
    ELSE IF i + 1 < Len(b)
    THEN IF ~ (IsCharBoundary(b, i) /\ IsCharBoundary(b, i + 2))
         THEN [panic |-> TRUE, bytes |-> << >>]
         ELSE LET v == FromStrRadix16(b[i + 1], b[i + 2])
                  r == HexLoop(b, i + 2)
              IN  [panic |-> r.panic,
                   bytes |-> IF r.panic THEN << >>
                             ELSE IF v >= 0 THEN << v >> \o r.bytes
                             ELSE r.bytes]
    ELSE HexLoop(b, i + 2)

\* hex_to_bytes
hex_to_bytes(s) == HexLoop(RemoveSpaces(as_bytes(s)), 0)

\* bytes_to_send of the send task
bytes_to_send(data, enc) ==
    IF enc = "Utf8" THEN [panic |-> FALSE, bytes |-> as_bytes(data)]
    ELSE hex_to_bytes(data)

\* one entry of the event sink (the timestamp is left out)
Ev(kind, text, enc) == [kind |-> kind, text |-> text, enc |-> enc]

\* add_message
add_message(msgs, e) == Append(msgs, e)

\* log_to_file: the events it adds; ferr = the write to the file fails
log_to_file(file, ferr) ==
    IF file # 0 /\ ferr THEN << Ev("file_write_failed", << >>, "") >> ELSE << >>

\* a drain that leaves the channel as it is
Drain_keep(ch) == ch

\* while conn_rx.try_recv().is_ok() {}
Drain(ch) == << >>

\* number of entries of kind k in a message list
CountKind(msgs, k) == Cardinality({ i \in 1..Len(msgs) : msgs[i].kind = k })

\* number of occurrences of x in a sequence
Count(q, x) == Cardinality({ i \in 1..Len(q) : q[i] = x })

\* ------------------------------------------------------------ initial state
Init ==
    /\ rx = << >>
    /\ submitted = 0
    /\ mpc = "recv"
    /\ cur_cmd = [op |-> "none"]
    /\ has_connection = FALSE
    /\ conn_rx = << >>
    /\ data_file = 0
    /\ nconn = 0
    /\ send_tasks = << >>
    /\ messages = << >>
    /\ written = << >>
    /\ receivers = << >>
    /\ faults = 0
    /\ handled = 0
    /\ encoding_mode = "Utf8"
    /\ recv_tasks = << >>
    /\ recv_env = 0
    /\ form = DefaultForm
    /\ checked = NotChecked
    /\ conv = NotConverted(DefaultForm.start_ip, << 32512, 1 >>)
    /\ ScanIdle
    /\ cpu_cores = 1

\* --------------------------------------------------------------- the caller
\* the commands of Message
Commands ==
    { [op |-> "Connect", addr |-> a] : a \in Addrs }
    \cup { [op |-> "Disconnect"] }
    \cup { [op |-> "Send", data |-> x.data, enc |-> x.enc] : x \in SendInputs }

\* tx.send(msg): the collaborator submits a command
Submit ==
    /\ submitted + faults < MaxEnv
    /\ Len(rx) < CmdChanCap
    /\ Len(rx) < MaxQueue
    /\ \E c \in Commands : rx' = Append(rx, c)
    /\ submitted' = submitted + 1
    /\ UNCHANGED << mpc, cur_cmd, has_connection, conn_rx, data_file, nconn,
                    send_tasks, messages, written, receivers, faults >>
    /\ UNCHANGED handled
    /\ UNCHANGED ext_vars

\* ------------------------------------------------------- the command loop
\* a loop that looks at the first command and leaves it in the queue
Take_peek(q) == q

\* while let Some(msg) = rx.recv().await: the queue after the loop has taken
\* its first command
Take(q) == Tail(q)

\* ------------------------------------------------- the command loop: Connect
\* Message::Connect up to the await of TcpStream::connect: the flag is
\* cleared and the channel is drained
ConnectBegin ==
    /\ mpc = "recv"
    /\ rx # << >>
    /\ Head(rx).op = "Connect"
    /\ rx' = Take(rx)
    /\ has_connection' = FALSE
    /\ conn_rx' = Drain(conn_rx)
    /\ mpc' = "connecting"
    /\ cur_cmd' = [op |-> "Connect", addr |-> Head(rx).addr,
                   was_connected |-> has_connection]
    /\ UNCHANGED << submitted, data_file, nconn, send_tasks, messages,
                    written, receivers, faults >>
    /\ handled' = handled + 1
    /\ UNCHANGED ext_vars

\* the events of the Ok(stream) branch up to the split of the stream
ConnectOkEvents(addr, nodelay_err, file_err) ==
    (IF nodelay_err THEN << Ev("nodelay_failed", << >>, "") >> ELSE << >>)
    \o << Ev("connected", << addr >>, "") >>
    \o << Ev(IF file_err THEN "file_create_failed" ELSE "file_created", << addr >>, "") >>

\* a secondary fault counts once
Fault(b) == IF b THEN 1 ELSE 0

\* TcpStream::connect returns; res is its outcome:
\*   "err"     connect failed
\*   "std_err" connected, but stream.into_std() failed
\*   "ok"      connected; the handler goes on to put the write half
ConnectFinish ==
    /\ mpc = "connecting"
    /\ \E res \in {"ok", "std_err", "err"}, nodelay_err \in BOOLEAN, file_err \in BOOLEAN :
        \/ /\ res = "err"
           /\ ~ nodelay_err /\ ~ file_err
           /\ data_file' = 0
           /\ messages' = add_message(messages, Ev("connect_failed", << cur_cmd.addr >>, ""))
           /\ mpc' = "recv"
           /\ cur_cmd' = [op |-> "none"]
           /\ UNCHANGED << has_connection, nconn, faults >>
        \/ /\ res = "std_err"
           /\ ~ nodelay_err /\ ~ file_err
           /\ submitted + faults < MaxEnv
           /\ faults' = faults + 1
           /\ nconn' = nconn + 1
           /\ messages' = add_message(messages, Ev("socket_failed", << >>, ""))
           /\ mpc' = "recv"
           /\ cur_cmd' = [op |-> "none"]
           /\ UNCHANGED << has_connection, data_file >>
        \/ /\ res = "ok"
           /\ submitted + faults + Fault(nodelay_err) + Fault(file_err) <= MaxEnv
           /\ faults' = faults + Fault(nodelay_err) + Fault(file_err)
           /\ nconn' = nconn + 1
           /\ messages' = messages \o ConnectOkEvents(cur_cmd.addr, nodelay_err, file_err)
           /\ has_connection' = TRUE
           /\ mpc' = "putting"
           /\ cur_cmd' = [op |-> "Connect", addr |-> cur_cmd.addr,
                          was_connected |-> cur_cmd.was_connected,
                          stream |-> nconn + 1, file_err |-> file_err]
           /\ UNCHANGED << data_file >>
    /\ UNCHANGED << rx, submitted, conn_rx, send_tasks, written, receivers >>
    /\ UNCHANGED handled
    /\ UNCHANGED ext_vars

\* a handler that forgets to spawn the receiver
SpawnReceiver_none(rs, stream) == rs

\* tokio::spawn(handle_data_reception(.., read_half, ..))
SpawnReceiver(rs, stream) == Append(rs, stream)

\* handle_data_reception(messages, read_half, encoding_mode, file) at its
\* spawn; emitted lists the kinds of the events the task has pushed
NewReceiver(stream, file) ==
    [pc |-> "spawned", stream |-> stream, file |-> file, buf |-> << >>,
     err |-> "none", emitted |-> << >>]

\* conn_tx.send(write_half).await, then data_file = Some(..) when the file
\* was created, then the spawn of handle_data_reception over read_half
ConnectPut ==
    /\ mpc = "putting"
    /\ Len(conn_rx) < ConnChanCap
    /\ conn_rx' = Append(conn_rx, cur_cmd.stream)
    /\ data_file' = IF cur_cmd.file_err THEN data_file ELSE cur_cmd.stream
    /\ receivers' = SpawnReceiver(receivers, cur_cmd.stream)
    /\ mpc' = "recv"
    /\ cur_cmd' = [op |-> "none"]
    /\ recv_tasks' = Append(recv_tasks,
           NewReceiver(cur_cmd.stream, IF cur_cmd.file_err THEN 0 ELSE cur_cmd.stream))
    /\ UNCHANGED << rx, submitted, has_connection, nconn, send_tasks,
                    messages, written, faults >>
    /\ UNCHANGED handled
    /\ UNCHANGED << encoding_mode, recv_env, valid_vars, scan_vars >>

\* ---------------------------------------------- the command loop: Disconnect
\* Message::Disconnect
Disconnect ==
    /\ mpc = "recv"
    /\ rx # << >>
    /\ Head(rx).op = "Disconnect"
    /\ rx' = Take(rx)
    /\ IF has_connection
       THEN \E ferr \in BOOLEAN :
              /\ ferr => (data_file # 0 /\ submitted + faults < MaxEnv)
              /\ faults' = faults + Fault(ferr)
              /\ conn_rx' = Drain(conn_rx)
              /\ has_connection' = FALSE
              /\ messages' = add_message(messages \o log_to_file(data_file, ferr),
                                         Ev("disconnected", << >>, ""))
              /\ data_file' = 0
       ELSE UNCHANGED << conn_rx, has_connection, messages, data_file, faults >>
    /\ UNCHANGED << submitted, mpc, cur_cmd, nconn, send_tasks, written, receivers >>
    /\ handled' = handled + 1
    /\ UNCHANGED ext_vars

\* ---------------------------------------------------- the command loop: Send
\* the task spawned by tokio::spawn in Message::Send
NewSendTask(stream, data, enc, file) ==
    [pc |-> "spawned", stream |-> stream, data |-> data, enc |-> enc,
     file |-> file]

\* a busy branch that drops the command silently
SendBusy_silent(msgs) == msgs

\* the Err(_) branch of conn_rx.try_recv(): the channel holds no write half
SendBusy(msgs) == add_message(msgs, Ev("busy", << >>, ""))

\* a not-connected branch that reports the channel as busy
SendNotConnected_busy(msgs) == add_message(msgs, Ev("busy", << >>, ""))

\* the else branch of has_connection
SendNotConnected(msgs) == add_message(msgs, Ev("not_connected", << >>, ""))

\* Message::Send
Send ==
    /\ mpc = "recv"
    /\ rx # << >>
    /\ Head(rx).op = "Send"
    /\ rx' = Take(rx)
    /\ IF has_connection
       THEN IF conn_rx # << >>
            THEN /\ conn_rx' = Tail(conn_rx)
                 /\ send_tasks' = Append(send_tasks,
                        NewSendTask(Head(conn_rx), Head(rx).data, Head(rx).enc, data_file))
                 /\ UNCHANGED messages
            ELSE /\ messages' = SendBusy(messages)
                 /\ UNCHANGED << conn_rx, send_tasks >>
       ELSE /\ messages' = SendNotConnected(messages)
            /\ UNCHANGED << conn_rx, send_tasks >>
    /\ UNCHANGED << submitted, mpc, cur_cmd, has_connection, data_file, nconn,
                    written, receivers, faults >>
    /\ handled' = handled + 1
    /\ UNCHANGED ext_vars

\* ------------------------------------------------------------ the send task
\* the task holds the write half
InFlight(t) == t.pc \in {"spawned", "written", "write_err", "returning"}

\* bytes_to_send, writer.write_all and writer.flush.  An empty buffer makes
\* no system call and cannot fail; a failed write has put a proper prefix
\* of the bytes on the socket.
TaskWrite(i) ==
    /\ i \in 1..Len(send_tasks)
    /\ send_tasks[i].pc = "spawned"
    /\ LET t == send_tasks[i]
           b == bytes_to_send(t.data, t.enc)
       IN  IF b.panic
           THEN /\ send_tasks' = [send_tasks EXCEPT ![i].pc = "panicked"]
                /\ UNCHANGED written
           ELSE \/ /\ send_tasks' = [send_tasks EXCEPT ![i].pc = "written"]
                   /\ written' = Append(written, [conn |-> t.stream, bytes |-> b.bytes,
                                                  task |-> i, ok |-> TRUE])
                \/ /\ Len(b.bytes) > 0
                   /\ \E k \in 0..(Len(b.bytes) - 1) :
                        written' = Append(written, [conn |-> t.stream,
                                                    bytes |-> SubSeq(b.bytes, 1, k),
                                                    task |-> i, ok |-> FALSE])
                   /\ send_tasks' = [send_tasks EXCEPT ![i].pc = "write_err"]
    /\ UNCHANGED << rx, submitted, mpc, cur_cmd, has_connection, conn_rx,
                    data_file, nconn, messages, receivers, faults >>
    /\ UNCHANGED handled
    /\ UNCHANGED ext_vars

\* a report that returns the write half after a failed write too
ReportNextPc_always(pc) == "returning"

\* match result: Ok goes on to return the write half, Err drops it
ReportNextPc(pc) == IF pc = "written" THEN "returning" ELSE "failed"

\* match result: the report of the send task
TaskReport(i) ==
    /\ i \in 1..Len(send_tasks)
    /\ LET t == send_tasks[i]
       IN  \/ /\ t.pc = "written"
              /\ \E ferr \in BOOLEAN :
                   /\ ferr => (t.file # 0 /\ submitted + faults < MaxEnv)
                   /\ faults' = faults + Fault(ferr)
                   /\ messages' = add_message(messages, Ev("sent", t.data, t.enc))
                                     \o log_to_file(t.file, ferr)
              /\ send_tasks' = [send_tasks EXCEPT ![i].pc = ReportNextPc(t.pc)]
           \/ /\ t.pc = "write_err"
              /\ messages' = add_message(messages, Ev("send_failed", << >>, ""))
              /\ send_tasks' = [send_tasks EXCEPT ![i].pc = ReportNextPc(t.pc)]
              /\ UNCHANGED faults
    /\ UNCHANGED << rx, submitted, mpc, cur_cmd, has_connection, conn_rx,
                    data_file, nconn, written, receivers >>
    /\ UNCHANGED handled
    /\ UNCHANGED ext_vars

\* conn_tx_clone.send(stream).await
TaskReturn(i) ==
    /\ i \in 1..Len(send_tasks)
    /\ send_tasks[i].pc = "returning"
    /\ Len(conn_rx) < ConnChanCap
    /\ conn_rx' = Append(conn_rx, send_tasks[i].stream)
    /\ send_tasks' = [send_tasks EXCEPT ![i].pc = "done"]
    /\ UNCHANGED << rx, submitted, mpc, cur_cmd, has_connection, data_file,
                    nconn, messages, written, receivers, faults >>
    /\ UNCHANGED handled
    /\ UNCHANGED ext_vars

\* ---------------------------------------------------------------- the system
Next ==
    \/ Submit
    \/ ConnectBegin
    \/ ConnectFinish
    \/ ConnectPut
    \/ Disconnect
    \/ Send
    \/ \E i \in 1..MaxEnv : TaskWrite(i)
    \/ \E i \in 1..MaxEnv : TaskReport(i)
    \/ \E i \in 1..MaxEnv : TaskReturn(i)

Spec == Init /\ [][Next]_vars

TypeOK ==
    /\ has_connection \in BOOLEAN
    /\ mpc \in {"recv", "connecting", "putting"}
    /\ submitted \in 0..MaxEnv
    /\ nconn \in 0..MaxEnv
    /\ faults \in 0..MaxEnv
    /\ data_file \in 0..nconn
    /\ \A i \in 1..Len(conn_rx) : conn_rx[i] \in 1..nconn
    /\ \A i \in 1..Len(send_tasks) :
         /\ send_tasks[i].enc \in EncodingMode
         /\ send_tasks[i].stream \in 1..nconn
         /\ send_tasks[i].pc \in {"spawned", "written", "write_err", "returning",
                                  "done", "failed", "panicked"}

\* ================================================================ receiver
\* handle_data_reception (src/tcpclient/src/network/receiver.rs).  The task
\* suspends in port.read; the value of the encoding mode is loaded after the
\* read has returned, so a read of n > 0 bytes is two steps (RecvRead,
\* RecvRender).  The pushes that follow one read outcome are one step.

\* a continuation byte of UTF-8
IsCont(x) == x >= 128 /\ x <= 191

\* core::str::from_utf8: the length of the well-formed sequence that starts
\* at b[i], 0 when there is none
Utf8SeqLen(b, i) ==
    LET x == b[i]
        n == Len(b)
        c(k) == i + k <= n /\ IsCont(b[i + k])
        second(lo, hi) == i + 1 <= n /\ b[i + 1] >= lo /\ b[i + 1] <= hi
    IN  IF x < 128 THEN 1
        ELSE IF x >= 194 /\ x <= 223 THEN (IF c(1) THEN 2 ELSE 0)
        ELSE IF x = 224 THEN (IF second(160, 191) /\ c(2) THEN 3 ELSE 0)
        ELSE IF (x >= 225 /\ x <= 236) \/ x = 238 \/ x = 239
             THEN (IF c(1) /\ c(2) THEN 3 ELSE 0)
        ELSE IF x = 237 THEN (IF second(128, 159) /\ c(2) THEN 3 ELSE 0)
        ELSE IF x = 240 THEN (IF second(144, 191) /\ c(2) /\ c(3) THEN 4 ELSE 0)
        ELSE IF x >= 241 /\ x <= 243 THEN (IF c(1) /\ c(2) /\ c(3) THEN 4 ELSE 0)
        ELSE IF x = 244 THEN (IF second(128, 143) /\ c(2) /\ c(3) THEN 4 ELSE 0)
        ELSE 0

\* the names of the characters of the model
CharNames == {" ", "+", "0", "1", "4", "F", "a", "g", "eacute"}

\* the character with the UTF-8 bytes bs; "?" is a character without a name
CharOf(bs) ==
    IF \E c \in CharNames : CharBytes(c) = bs
    THEN CHOOSE c \in CharNames : CharBytes(c) = bs
    ELSE "?"

RECURSIVE Utf8Chars(_, _)
\* String::from_utf8 from index i (1-based) on: the characters, or ok = FALSE
Utf8Chars(b, i) ==
    IF i > Len(b) THEN [ok |-> TRUE, text |-> << >>]
    ELSE LET k == Utf8SeqLen(b, i)
         IN  IF k = 0 THEN [ok |-> FALSE, text |-> << >>]
             ELSE LET r == Utf8Chars(b, i + k)
                  IN  [ok |-> r.ok,
                       text |-> IF r.ok
                                THEN << CharOf(SubSeq(b, i, i + k - 1)) >> \o r.text
                                ELSE << >>]

\* String::from_utf8(read_buffer[..n].to_vec())
from_utf8(b) == Utf8Chars(b, 1)

\* the digits of {:X}
HexDigits == << "0", "1", "2", "3", "4", "5", "6", "7", "8", "9",
                "A", "B", "C", "D", "E", "F" >>

\* format!("{:02X}", b)
FormatX02(b) == << HexDigits[(b \div 16) + 1], HexDigits[(b % 16) + 1] >>

RECURSIVE hex_data_join(_)
\* hex_data.join(" ") over the {:02X} of the bytes
hex_data_join(b) ==
    IF b = << >> THEN << >>
    ELSE IF Len(b) = 1 THEN FormatX02(b[1])
    ELSE FormatX02(Head(b)) \o << " " >> \o hex_data_join(Tail(b))

\* a receiver that tries UTF-8 first in either mode
Render_utf8_first(mode, b) ==
    IF from_utf8(b).ok THEN Ev("received_utf8", from_utf8(b).text, "")
    ELSE Ev("received_hex", hex_data_join(b), "")

\* match current_mode: the event of a read of n > 0 bytes
Render(mode, b) ==
    IF mode = "Utf8"
    THEN IF from_utf8(b).ok
         THEN Ev("received_utf8", from_utf8(b).text, "")
         ELSE Ev("received_non_utf8", hex_data_join(b), "")
    ELSE Ev("received_hex", hex_data_join(b), "")

\* the classification of a read error: the arms of match e.kind()
ErrorEvent(kind) ==
    CASE kind = "ConnectionReset" -> "err_reset"
      [] kind = "ConnectionAborted" -> "err_aborted"
      [] kind = "TimedOut" -> "err_timed_out"
      [] kind = "WouldBlock" -> "err_would_block"
      [] kind = "Interrupted" -> "err_interrupted"
      [] OTHER -> "err_read"

\* a receiver that reports the interruption after every read error
FollowUp_always(kind) == TRUE

\* matches!(e.kind(), ConnectionReset | ConnectionAborted | BrokenPipe)
FollowUp(kind) == kind \in {"ConnectionReset", "ConnectionAborted", "BrokenPipe"}

\* a loop that goes on reading after a read of 0 bytes
EofNextPc_continue == "reading"

\* the break of the Ok(0) arm: the task leaves the loop
EofNextPc == "closing"

\* a push and a write to the data file that says nothing when the write fails
PushAndLog_silent(kind, text, file, ferr) == << Ev(kind, text, "") >>

\* a push of one event followed by the write of its text to the data file:
\* the events the two add; ferr = the write to the file fails
PushAndLog(kind, text, file, ferr) ==
    << Ev(kind, text, "") >>
    \o (IF file # 0 /\ ferr THEN << Ev("file_write_failed", << >>, "") >> ELSE << >>)

\* the kinds of a list of events
Kinds(evs) == [ j \in 1..Len(evs) |-> evs[j].kind ]

\* the task i pushes the events evs and goes to pc
RecvEmit(i, evs, pc) ==
    /\ messages' = messages \o evs
    /\ recv_tasks' = [recv_tasks EXCEPT ![i].pc = pc,
                                        ![i].emitted = @ \o Kinds(evs)]

\* the frame of a step of a receiver
RecvFrame ==
    UNCHANGED << rx, submitted, mpc, cur_cmd, has_connection, conn_rx, data_file,
                 nconn, send_tasks, written, receivers, faults, handled,
                 encoding_mode, valid_vars, scan_vars >>

\* the push of "数据接收通道已建立" before the loop
RecvStart(i) ==
    /\ i \in 1..Len(recv_tasks)
    /\ recv_tasks[i].pc = "spawned"
    /\ RecvEmit(i, << Ev("recv_established", << >>, "") >>, "reading")
    /\ UNCHANGED recv_env
    /\ RecvFrame

\* port.read(&mut read_buffer).await returns Ok(0)
RecvEof(i) ==
    /\ i \in 1..Len(recv_tasks)
    /\ recv_tasks[i].pc = "reading"
    /\ \E ferr \in BOOLEAN :
         /\ ferr => recv_tasks[i].file # 0
         /\ recv_env + 1 + Fault(ferr) <= MaxRecvEnv
         /\ recv_env' = recv_env + 1 + Fault(ferr)
         /\ RecvEmit(i, PushAndLog("server_closed", << >>, recv_tasks[i].file, ferr),
                     EofNextPc)
    /\ RecvFrame

\* port.read(&mut read_buffer).await returns Ok(n), n > 0, with one of
\* the given chunks in the buffer
RecvReadOf(i, chunks) ==
    /\ i \in 1..Len(recv_tasks)
    /\ recv_tasks[i].pc = "reading"
    /\ recv_env < MaxRecvEnv
    /\ recv_env' = recv_env + 1
    /\ \E chunk \in chunks :
         recv_tasks' = [recv_tasks EXCEPT ![i].pc = "render", ![i].buf = chunk]
    /\ UNCHANGED messages
    /\ RecvFrame

\* port.read(&mut read_buffer).await returns Ok(n), n > 0
RecvRead(i) == RecvReadOf(i, RecvChunks)

\* the Ok(n) arm: the load of the encoding mode, the push of the rendering
\* and the write to the data file
RecvRender(i) ==
    /\ i \in 1..Len(recv_tasks)
    /\ recv_tasks[i].pc = "render"
    /\ LET e == Render(encoding_mode, recv_tasks[i].buf)
       IN  \E ferr \in BOOLEAN :
             /\ ferr => recv_tasks[i].file # 0
             /\ recv_env + Fault(ferr) <= MaxRecvEnv
             /\ recv_env' = recv_env + Fault(ferr)
             /\ RecvEmit(i, PushAndLog(e.kind, e.text, recv_tasks[i].file, ferr),
                         "reading")
    /\ RecvFrame

\* port.read(&mut read_buffer).await returns Err(e): the Err arm up to break
RecvError(i) ==
    /\ i \in 1..Len(recv_tasks)
    /\ recv_tasks[i].pc = "reading"
    /\ \E kind \in ErrorKinds, ferr1 \in BOOLEAN, ferr2 \in BOOLEAN :
         /\ (ferr1 \/ ferr2) => recv_tasks[i].file # 0
         /\ ferr2 => FollowUp(kind)
         /\ recv_env + 1 + Fault(ferr1) + Fault(ferr2) <= MaxRecvEnv
         /\ recv_env' = recv_env + 1 + Fault(ferr1) + Fault(ferr2)
         /\ messages' = messages
               \o PushAndLog(ErrorEvent(kind), << >>, recv_tasks[i].file, ferr1)
               \o (IF FollowUp(kind)
                   THEN PushAndLog("conn_interrupted", << >>, recv_tasks[i].file, ferr2)
                   ELSE << >>)
         /\ recv_tasks' = [recv_tasks EXCEPT
               ![i].pc = "closing",
               ![i].err = kind,
               ![i].emitted = @ \o Kinds(
                   PushAndLog(ErrorEvent(kind), << >>, recv_tasks[i].file, ferr1)
                   \o (IF FollowUp(kind)
                       THEN PushAndLog("conn_interrupted", << >>, recv_tasks[i].file, ferr2)
                       ELSE << >>))]
    /\ RecvFrame

\* after the loop: the push of "数据接收通道已关闭" and its write to the file
RecvClose(i) ==
    /\ i \in 1..Len(recv_tasks)
    /\ recv_tasks[i].pc = "closing"
    /\ \E ferr \in BOOLEAN :
         /\ ferr => recv_tasks[i].file # 0
         /\ recv_env + Fault(ferr) <= MaxRecvEnv
         /\ recv_env' = recv_env + Fault(ferr)
         /\ RecvEmit(i, PushAndLog("recv_closed", << >>, recv_tasks[i].file, ferr),
                     "done")
    /\ RecvFrame

\* the radio buttons of the encoding mode: the collaborator stores mode m
SetEncodingMode(m) ==
    /\ m # encoding_mode
    /\ recv_env < MaxRecvEnv
    /\ recv_env' = recv_env + 1
    /\ encoding_mode' = m
    /\ UNCHANGED << rx, submitted, mpc, cur_cmd, has_connection, conn_rx, data_file,
                    nconn, send_tasks, messages, written, receivers, faults,
                    handled, recv_tasks, valid_vars, scan_vars >>

\* the state in which the command loop has handled one Connect to the end:
\* the write half is in the channel and the receiver is spawned
InitRecv ==
    /\ rx = << >>
    /\ submitted = 1
    /\ handled = 1
    /\ mpc = "recv"
    /\ cur_cmd = [op |-> "none"]
    /\ has_connection = TRUE
    /\ conn_rx = << 1 >>
    /\ nconn = 1
    /\ send_tasks = << >>
    /\ written = << >>
    /\ receivers = SpawnReceiver(<< >>, 1)
    /\ encoding_mode \in EncodingMode
    /\ recv_env = 0
    /\ form = DefaultForm
    /\ checked = NotChecked
    /\ conv = NotConverted(DefaultForm.start_ip, << 32512, 1 >>)
    /\ ScanIdle
    /\ cpu_cores = 1
    /\ \E file_err \in BOOLEAN :
         /\ faults = Fault(file_err)
         /\ data_file = (IF file_err THEN 0 ELSE 1)
         /\ messages = ConnectOkEvents("srv", FALSE, file_err)
         /\ recv_tasks = << NewReceiver(1, IF file_err THEN 0 ELSE 1) >>

NextRecv ==
    \/ \E i \in 1..Len(recv_tasks) : RecvStart(i)
    \/ \E i \in 1..Len(recv_tasks) : RecvEof(i)
    \/ \E i \in 1..Len(recv_tasks) : RecvRead(i)
    \/ \E i \in 1..Len(recv_tasks) : RecvRender(i)
    \/ \E i \in 1..Len(recv_tasks) : RecvError(i)
    \/ \E i \in 1..Len(recv_tasks) : RecvClose(i)
    \/ \E m \in EncodingMode : SetEncodingMode(m)

\* the receiver of one connection and the collaborator's mode changes
SpecRecv == InitRecv /\ [][NextRecv]_vars

\* the commands of a collaborator that connects, sends a text and connects
\* again
SessionScript ==
    << [op |-> "Connect", addr |-> "srv"],
       [op |-> "Send", data |-> << "4", "1" >>, enc |-> "Utf8"],
       [op |-> "Connect", addr |-> "srv"] >>

\* tx.send(msg) of the collaborator of the session: its next command
SessionSubmit ==
    /\ submitted < Len(SessionScript)
    /\ submitted + faults < MaxEnv
    /\ Len(rx) < CmdChanCap
    /\ Len(rx) < MaxQueue
    /\ rx' = Append(rx, SessionScript[submitted + 1])
    /\ submitted' = submitted + 1
    /\ UNCHANGED << mpc, cur_cmd, has_connection, conn_rx, data_file, nconn,
                    send_tasks, messages, written, receivers, faults >>
    /\ UNCHANGED handled
    /\ UNCHANGED ext_vars

\* what the servers of the session send: one chunk of ASCII text
SessionChunks == { << 52, 49 >> }

\* the command loop, the send tasks and the receivers it spawns, together;
\* the servers keep their connections open
NextSession ==
    \/ SessionSubmit
    \/ ConnectBegin
    \/ ConnectFinish
    \/ ConnectPut
    \/ Send
    \/ \E i \in 1..MaxEnv : TaskWrite(i)
    \/ \E i \in 1..MaxEnv : TaskReport(i)
    \/ \E i \in 1..MaxEnv : TaskReturn(i)
    \/ \E i \in 1..Len(recv_tasks) : RecvStart(i)
    \/ \E i \in 1..Len(recv_tasks) : RecvReadOf(i, SessionChunks)
    \/ \E i \in 1..Len(recv_tasks) : RecvRender(i)

\* a session: the command loop with its send tasks and its receivers
SpecSession == Init /\ [][NextSession]_vars

\* ================================================================== scanner
\* the range checks of src/tcpclient/src/network/scanner.rs
\* ---------------------------------------------------------------- inputs
\* the texts the collaborator types into the address fields: two adjacent
\* addresses, the addresses 1000 and 1001 above the first, a text of three
\* parts and a text with a part above 255
IpTexts ==
    { << "1", ".", "0", ".", "0", ".", "1" >>,
      << "1", ".", "0", ".", "0", ".", "2" >>,
      << "1", ".", "0", ".", "3", ".", "2", "3", "3" >>,
      << "1", ".", "0", ".", "3", ".", "2", "3", "4" >>,
      << "1", ".", "0", ".", "0" >>,
      << "1", ".", "0", ".", "0", ".", "2", "5", "6" >> }
\* the texts the collaborator types into the port fields: ports 1 and 2,
\* the ports 1000 and 1001 above port 1, the largest port, a number above
\* it, a signed number, a text that is no number and the empty text
PortTexts ==
    { << "1" >>, << "2" >>,
      << "1", "0", "0", "1" >>, << "1", "0", "0", "2" >>,
      << "6", "5", "5", "3", "5" >>, << "6", "5", "5", "3", "6" >>,
      << "+", "1" >>, << "a" >>, << >> }

\* the decimal digits
DecDigits == << "0", "1", "2", "3", "4", "5", "6", "7", "8", "9" >>

\* char::to_digit(10); -1 when c is no digit
DecDigit(c) ==
    IF \E d \in 1..10 : DecDigits[d] = c
    THEN (CHOOSE d \in 1..10 : DecDigits[d] = c) - 1
    ELSE -1

RECURSIVE ParseDigits(_, _, _)
\* the checked accumulation of from_str_radix over an unsigned integer type
\* with largest value max: the value, or -1 on a character that is no digit
\* and on overflow
ParseDigits(t, acc, max) ==
    IF t = << >> THEN acc
    ELSE LET d == DecDigit(Head(t))
         IN  IF d < 0 THEN -1
             ELSE IF 10 * acc + d > max THEN -1
             ELSE ParseDigits(Tail(t), 10 * acc + d, max)

\* str::parse::<u16>(): the value, or -1 for Err; one leading "+" is allowed
parse_u16(t) ==
    IF t = << >> THEN -1
    ELSE IF Head(t) = "+"
         THEN (IF Tail(t) = << >> THEN -1 ELSE ParseDigits(Tail(t), 0, 65535))
         ELSE ParseDigits(t, 0, 65535)

\* is_valid_port
is_valid_port(t) == parse_u16(t) >= 0

RECURSIVE SplitDots(_)
\* the parts of a text between its dots
SplitDots(t) ==
    IF \A i \in 1..Len(t) : t[i] # "."
    THEN << t >>
    ELSE LET k == CHOOSE i \in 1..Len(t) : t[i] = "." /\ \A j \in 1..(i - 1) : t[j] # "."
         IN  << SubSeq(t, 1, k - 1) >> \o SplitDots(SubSeq(t, k + 1, Len(t)))

\* one part of a dotted quad: 1 to 3 digits, no leading zero, at most 255;
\* the value, or -1
ParseOctet(t) ==
    IF t = << >> \/ Len(t) > 3 THEN -1
    ELSE IF Len(t) > 1 /\ Head(t) = "0" THEN -1
    ELSE ParseDigits(t, 0, 255)

\* Ipv4Addr::from_str(ip).octets(): the four octets, or << >> for Err
Ipv4Octets(t) ==
    LET parts == SplitDots(t)
    IN  IF Len(parts) = 4 /\ \A i \in 1..4 : ParseOctet(parts[i]) >= 0
        THEN [ i \in 1..4 |-> ParseOctet(parts[i]) ]
        ELSE << >>

\* A u32 is written as the pair << h, l >> of its upper and its lower 16
\* bits where the whole range of the type is needed; the value of the pair
U32(w) == w[1] * 65536 + w[2]

\* the pair of a u32 value
Halves(n) == << n \div 65536, n % 65536 >>

\* ip_to_u32 with its result as a pair: (octets[0] << 24 | octets[1] << 16)
\* is the upper half, (octets[2] << 8 | octets[3]) the lower; << >> for None
ip_to_u32_halves(t) ==
    LET o == Ipv4Octets(t)
    IN  IF o = << >> THEN << >>
        ELSE << o[1] * 256 + o[2], o[3] * 256 + o[4] >>

\* ip_to_u32: the number of the address, or -1 for None
ip_to_u32(t) ==
    IF ip_to_u32_halves(t) = << >> THEN -1 ELSE U32(ip_to_u32_halves(t))

\* a formatting of an octet that pads it to three digits
FormatDec_padded(n) ==
    << DecDigits[(n \div 100) + 1], DecDigits[((n \div 10) % 10) + 1],
       DecDigits[(n % 10) + 1] >>

RECURSIVE FormatDec(_)
\* format!("{}", n) of an unsigned integer: its decimal digits
FormatDec(n) ==
    IF n < 10 THEN << DecDigits[n + 1] >>
    ELSE FormatDec(n \div 10) \o << DecDigits[(n % 10) + 1] >>

\* u32_to_ip of a pair: the text of the four octets, joined by dots
u32_to_ip_halves(w) ==
    LET octet1 == (w[1] \div 256) % 256
        octet2 == w[1] % 256
        octet3 == (w[2] \div 256) % 256
        octet4 == w[2] % 256
    IN  FormatDec(octet1) \o << "." >> \o FormatDec(octet2) \o << "." >>
            \o FormatDec(octet3) \o << "." >> \o FormatDec(octet4)

\* u32_to_ip
u32_to_ip(ip) == u32_to_ip_halves(Halves(ip))

\* is_valid_ip
is_valid_ip(t) == Ipv4Octets(t) # << >>

\* a range check that accepts up to 1001 above the start
RangeOk_wide(start, end) == start <= end /\ end - start <= 1001

\* start <= end && end - start <= 1000, on unsigned integers: the
\* subtraction is evaluated only when start <= end
RangeOk(start, end) == start <= end /\ end - start <= 1000

\* is_valid_port_range
is_valid_port_range(start_port, end_port) ==
    IF ~ is_valid_port(start_port) \/ ~ is_valid_port(end_port)
    THEN FALSE
    ELSE RangeOk(parse_u16(start_port), parse_u16(end_port))

\* is_valid_ip_range
is_valid_ip_range(start_ip, end_ip) ==
    IF ~ is_valid_ip(start_ip) \/ ~ is_valid_ip(end_ip)
    THEN FALSE
    ELSE IF ip_to_u32(start_ip) >= 0 /\ ip_to_u32(end_ip) >= 0
         THEN RangeOk(ip_to_u32(start_ip), ip_to_u32(end_ip))
         ELSE FALSE

\* the frame of a step that applies a range check
ValidFrame ==
    UNCHANGED << rx, submitted, mpc, cur_cmd, has_connection, conn_rx, data_file,
                 nconn, send_tasks, messages, written, receivers, faults, handled,
                 recv_vars, form, conv, scan_vars >>

\* is_valid_ip_range(&app.start_ip, &app.end_ip)
CheckIpRange ==
    /\ checked.ip_range = "none"
    /\ checked' = [checked EXCEPT
                     !.ip_range = IF is_valid_ip_range(form.start_ip, form.end_ip)
                                  THEN "true" ELSE "false"]
    /\ ValidFrame

\* is_valid_port_range(&app.start_port, &app.end_port)
CheckPortRange ==
    /\ checked.port_range = "none"
    /\ checked' = [checked EXCEPT
                     !.port_range = IF is_valid_port_range(form.start_port, form.end_port)
                                    THEN "true" ELSE "false"]
    /\ ValidFrame

\* the scan panel with any of the texts in its fields
InitValid ==
    /\ rx = << >> /\ submitted = 0 /\ handled = 0
    /\ mpc = "recv" /\ cur_cmd = [op |-> "none"]
    /\ has_connection = FALSE /\ conn_rx = << >> /\ data_file = 0 /\ nconn = 0
    /\ send_tasks = << >> /\ messages = << >> /\ written = << >>
    /\ receivers = << >> /\ faults = 0
    /\ encoding_mode = "Utf8" /\ recv_tasks = << >> /\ recv_env = 0
    /\ form \in [start_ip : IpTexts, end_ip : IpTexts,
                 start_port : PortTexts, end_port : PortTexts,
                 timeout_ms : {DefaultForm.timeout_ms}]
    /\ checked = NotChecked
    /\ conv = NotConverted(DefaultForm.start_ip, << 32512, 1 >>)
    /\ ScanIdle
    /\ cpu_cores = 1

NextValid ==
    \/ CheckIpRange
    \/ CheckPortRange

\* the range checks applied to the texts of the scan panel
SpecValid == InitValid /\ [][NextValid]_vars

\* ---------------------------------------------- the address conversions
\* the address texts that are converted: the lowest and the highest
\* address, addresses with parts of one, two and three digits, a part with
\* a leading zero, a part above 255 and a text of three parts
ConvTexts ==
    { << "0", ".", "0", ".", "0", ".", "0" >>,
      << "2", "5", "5", ".", "2", "5", "5", ".", "2", "5", "5", ".", "2", "5", "5" >>,
      << "1", ".", "0", ".", "0", ".", "1" >>,
      << "1", "9", "2", ".", "1", "6", "8", ".", "1", ".", "1", "0", "0" >>,
      << "1", "0", ".", "2", "0", ".", "3", "0", ".", "4", "0" >>,
      << "0", "1", ".", "0", ".", "0", ".", "1" >>,
      << "1", ".", "0", ".", "0", ".", "2", "5", "6" >>,
      << "1", ".", "0", ".", "0" >> }

\* the address numbers that are converted, as pairs: the ends of the range
\* of u32, the first number of each octet and numbers of mixed octets
ConvNumbers ==
    { << 0, 0 >>, << 65535, 65535 >>, << 0, 1 >>, << 0, 256 >>, << 1, 0 >>,
      << 256, 0 >>, << 256, 1 >>, << 49320, 356 >>, << 2580, 7720 >> }

\* the frame of a step that converts
ConvFrame ==
    UNCHANGED << rx, submitted, mpc, cur_cmd, has_connection, conn_rx, data_file,
                 nconn, send_tasks, messages, written, receivers, faults, handled,
                 recv_vars, form, checked, scan_vars >>

\* ip_to_u32(text), and u32_to_ip of its result when it is Some
TextToU32AndBack ==
    /\ ~ conv.text_done
    /\ conv' = [conv EXCEPT
                  !.text_done = TRUE,
                  !.as_u32 = ip_to_u32_halves(conv.text),
                  !.text_back = IF ip_to_u32_halves(conv.text) # << >>
                                THEN u32_to_ip_halves(ip_to_u32_halves(conv.text))
                                ELSE << >>]
    /\ ConvFrame

\* u32_to_ip(u32), and ip_to_u32 of its result
U32ToTextAndBack ==
    /\ ~ conv.u32_done
    /\ conv' = [conv EXCEPT
                  !.u32_done = TRUE,
                  !.as_text = u32_to_ip_halves(conv.u32),
                  !.u32_back = ip_to_u32_halves(u32_to_ip_halves(conv.u32))]
    /\ ConvFrame

\* any of the texts and any of the numbers, not yet converted
InitConv ==
    /\ rx = << >> /\ submitted = 0 /\ handled = 0
    /\ mpc = "recv" /\ cur_cmd = [op |-> "none"]
    /\ has_connection = FALSE /\ conn_rx = << >> /\ data_file = 0 /\ nconn = 0
    /\ send_tasks = << >> /\ messages = << >> /\ written = << >>
    /\ receivers = << >> /\ faults = 0
    /\ encoding_mode = "Utf8" /\ recv_tasks = << >> /\ recv_env = 0
    /\ form = DefaultForm
    /\ checked = NotChecked
    /\ \E text \in ConvTexts, u32 \in ConvNumbers : conv = NotConverted(text, u32)
    /\ ScanIdle
    /\ cpu_cores = 1

NextConv ==
    \/ TextToU32AndBack
    \/ U32ToTextAndBack

\* the conversions between address texts and address numbers
SpecConv == InitConv /\ [][NextConv]_vars

\* ------------------------------------------------- the hex conversion
\* is_valid_hex_string: the text without its spaces is empty, or has an
\* even number of bytes and only characters that are hex digits
is_valid_hex_string(s) ==
    LET hex_str == RemoveSpaces(as_bytes(s))
    IN  IF hex_str = << >> THEN TRUE
        ELSE IF Len(hex_str) % 2 # 0 THEN FALSE
        ELSE \A k \in 1..Len(s) :
                s[k] = " " \/ (Len(CharBytes(s[k])) = 1 /\ HexDigit(CharBytes(s[k])[1]) >= 0)

\* the characters of the texts that are decoded: hex digits of both cases,
\* a space, a letter that is no hex digit and a two-byte character
HexTextChars == {" ", "0", "4", "a", "F", "g", "eacute"}

\* the texts that are decoded: every text of at most MaxHexLen characters
HexTexts ==
    UNION { [1..n -> HexTextChars] : n \in 0..MaxHexLen }

\* a hex text, not yet decoded: valid is the result of is_valid_hex_string
\* and decoded that of hex_to_bytes
NotDecoded(text) ==
    [text |-> text, hex_done |-> FALSE, valid |-> FALSE,
     decoded |-> [panic |-> FALSE, bytes |-> << >>]]

\* is_valid_hex_string(text) and hex_to_bytes(text)
HexDecode ==
    /\ ~ conv.hex_done
    /\ conv' = [conv EXCEPT
                  !.hex_done = TRUE,
                  !.valid = is_valid_hex_string(conv.text),
                  !.decoded = hex_to_bytes(conv.text)]
    /\ ConvFrame

\* any of the texts, not yet decoded
InitHex ==
    /\ rx = << >> /\ submitted = 0 /\ handled = 0
    /\ mpc = "recv" /\ cur_cmd = [op |-> "none"]
    /\ has_connection = FALSE /\ conn_rx = << >> /\ data_file = 0 /\ nconn = 0
    /\ send_tasks = << >> /\ messages = << >> /\ written = << >>
    /\ receivers = << >> /\ faults = 0
    /\ encoding_mode = "Utf8" /\ recv_tasks = << >> /\ recv_env = 0
    /\ form = DefaultForm
    /\ checked = NotChecked
    /\ \E text \in HexTexts : conv = NotDecoded(text)
    /\ ScanIdle
    /\ cpu_cores = 1

NextHex == HexDecode

\* the decoding of hex texts
SpecHex == InitHex /\ [][NextHex]_vars

\* ------------------------------------------------------ the scan panel
\* the forms the collaborator scans with: two addresses with two ports, the
\* same with the addresses swapped, an address range of 1001, a port range
\* of 1001, and a timeout that is no number
ScanForms ==
    LET a == << "1", ".", "0", ".", "0", ".", "1" >>
        b == << "1", ".", "0", ".", "0", ".", "2" >>
        d == << "1", ".", "0", ".", "3", ".", "2", "3", "4" >>
        f(si, ei, sp, ep, t) ==
            [start_ip |-> si, end_ip |-> ei, start_port |-> sp, end_port |-> ep,
             timeout_ms |-> t]
    IN  { f(a, b, << "1" >>, << "2" >>, << "5" >>),
          f(b, a, << "1" >>, << "2" >>, << "5" >>),
          f(a, d, << "1" >>, << "2" >>, << "5" >>),
          f(a, a, << "1" >>, << "1", "0", "0", "2" >>, << "5" >>),
          f(a, b, << "1" >>, << "2" >>, << "a" >>) }

\* the (address, port) pairs that accept a connection
OpenTargets == { << 16777217, 2 >> }

\* the numbers of cores num_cpus::get() returns
CpuCores == {1, 2}

\* str::parse::<u64>() is Ok: digits after at most one "+"; a text of the
\* model is too short to overflow
parse_u64_ok(t) ==
    LET digits == IF t # << >> /\ Head(t) = "+" THEN Tail(t) ELSE t
    IN  digits # << >> /\ \A i \in 1..Len(digits) : DecDigit(digits[i]) >= 0

\* a validation that looks at the format of the fields only
RejectKind_formats(f) ==
    IF ~ (is_valid_ip(f.start_ip) /\ is_valid_ip(f.end_ip)) THEN "rej_ip_format"
    ELSE IF ~ (is_valid_port(f.start_port) /\ is_valid_port(f.end_port))
         THEN "rej_port_format"
    ELSE "none"

\* the validation of the click handler: the entry it logs, "none" when the
\* form passes
RejectKind(f) ==
    IF ~ (is_valid_ip(f.start_ip) /\ is_valid_ip(f.end_ip)) THEN "rej_ip_format"
    ELSE IF ~ (is_valid_port(f.start_port) /\ is_valid_port(f.end_port))
         THEN "rej_port_format"
    ELSE IF ~ is_valid_ip_range(f.start_ip, f.end_ip) THEN "rej_ip_range"
    ELSE IF ~ is_valid_port_range(f.start_port, f.end_port) THEN "rej_port_range"
    ELSE IF ~ (parse_u16(f.start_port) >= 0 /\ parse_u16(f.end_port) >= 0)
         THEN "rej_port_format"
    ELSE IF ~ parse_u64_ok(f.timeout_ms) THEN "rej_timeout"
    ELSE "none"

\* one entry of scan_logs
LogEntry(kind, x, y) == [kind |-> kind, x |-> x, y |-> y]

\* Message::ScanIp(start_ip, end_ip, start_port, end_port, ..)
ScanIpCommand(f) ==
    [op |-> "ScanIp", start_ip |-> f.start_ip, end_ip |-> f.end_ip,
     start_port |-> parse_u16(f.start_port), end_port |-> parse_u16(f.end_port)]

\* the frame of a step of the scan panel or of a scan task
ScanFrame ==
    UNCHANGED << mpc, cur_cmd, has_connection, conn_rx, data_file, nconn,
                 send_tasks, messages, written, receivers, faults, recv_vars,
                 valid_vars, cpu_cores >>

\* a click on the button while app.is_scanning is false: the validation
\* and the entry of a rejection, or the spawn of the task that sends ScanIp,
\* app.is_scanning = true and the clearing of both lists
StartScan ==
    /\ ~ app_is_scanning
    /\ clicks < MaxClicks
    /\ clicks' = clicks + 1
    /\ IF RejectKind(form) = "none"
       THEN /\ scan_sends' = Append(scan_sends, ScanIpCommand(form))
            /\ app_is_scanning' = TRUE
            /\ scan_results' = << >>
            /\ scan_logs' = << >>
       ELSE /\ scan_logs' = Append(scan_logs, LogEntry(RejectKind(form), 0, 0))
            /\ UNCHANGED << scan_sends, app_is_scanning, scan_results >>
    /\ UNCHANGED << rx, submitted, handled, scans >>
    /\ ScanFrame

\* a click on the button while app.is_scanning is true
StopScan ==
    /\ app_is_scanning
    /\ clicks < MaxClicks
    /\ clicks' = clicks + 1
    /\ app_is_scanning' = FALSE
    /\ scan_logs' = Append(scan_logs, LogEntry("user_cancel", 0, 0))
    /\ UNCHANGED << rx, submitted, handled, scan_sends, scan_results, scans >>
    /\ ScanFrame

\* tx.send(Message::ScanIp(..)).await of the task the click has spawned
SendScanIp ==
    /\ Len(rx) < CmdChanCap
    /\ \E i \in 1..Len(scan_sends) :
         /\ rx' = Append(rx, scan_sends[i])
         /\ scan_sends' = SubSeq(scan_sends, 1, i - 1)
                             \o SubSeq(scan_sends, i + 1, Len(scan_sends))
    /\ submitted' = submitted + 1
    /\ UNCHANGED << handled, app_is_scanning, clicks, scan_results, scan_logs, scans >>
    /\ ScanFrame

\* scan_ip_range(.., is_scanning) at its spawn, with the locals it will set;
\* emitted lists the kinds of the entries the task has pushed to scan_logs,
\* probed the (address, port) pairs a probe was spawned for, reprobed those
\* a probe was spawned for again
NewScan(c) ==
    [start_ip |-> c.start_ip, end_ip |-> c.end_ip,
     start_port |-> c.start_port, end_port |-> c.end_port,
     is_scanning |-> TRUE, pc |-> "spawned", is_cancelled |-> FALSE,
     scanned |-> 0, open_ports |-> 0, total_ips |-> 0, batches |-> << >>,
     final |-> << >>, emitted |-> << >>, probed |-> {}, reprobed |-> {}]

\* Message::ScanIp
ScanIp ==
    /\ mpc = "recv"
    /\ rx # << >>
    /\ Head(rx).op = "ScanIp"
    /\ rx' = Take(rx)
    /\ handled' = handled + 1
    /\ scan_logs' = Append(scan_logs, LogEntry("task_started", 0, 0))
    /\ scans' = Append(scans, NewScan(Head(rx)))
    /\ UNCHANGED << submitted, app_is_scanning, clicks, scan_sends, scan_results >>
    /\ ScanFrame

\* -------------------------------------------------------------- the scan task
\* chunk_size of scan_ports: the number of ports probed in parallel
chunk_size == 50

\* the last port of the chunk that starts at port_chunk_start, with the
\* wrapping arithmetic of a build without overflow checks
ChunkEnd(port_chunk_start, end_port) ==
    LET e == (port_chunk_start + chunk_size - 1) % 65536
    IN  IF e < end_port THEN e ELSE end_port

\* port_chunk_start + chunk_size as u16 leaves the range of u16: a build
\* with overflow checks panics there
ChunkOverflows(port_chunk_start) == port_chunk_start + chunk_size > 65535

\* the task of one batch at its spawn: the addresses lo..hi; run_open and
\* run_closed are the probes it has spawned whose connect has not returned,
\* those to a target that accepts and the number of the others; counted and
\* resulted are the probes that have found their port open and have counted
\* it, and have pushed the result too
NewBatch(lo, hi) ==
    [lo |-> lo, hi |-> hi, ip |-> lo, pc |-> "ip_check", port |-> 0,
     chunk_start |-> 0, chunk_end |-> 0, run_open |-> {}, run_closed |-> 0,
     counted |-> {}, resulted |-> {}]

\* the batch task bt at the head of the chunk that starts at cs: the panic
\* of the overflow check, or the loop over the ports of the chunk, which is
\* empty when the wrapped end lies below the start
EnterChunk(bt, cs, end_port, panic) ==
    IF panic
    THEN [bt EXCEPT !.pc = "panicked"]
    ELSE [bt EXCEPT !.chunk_start = cs,
                    !.chunk_end = ChunkEnd(cs, end_port),
                    !.port = cs,
                    !.pc = IF cs <= ChunkEnd(cs, end_port) THEN "port_check"
                           ELSE "join"]

\* for batch_start in (start..=end).step_by(batch_size): the batch tasks
Batches(start, end, batch_size) ==
    [ k \in 1..(((end - start) \div batch_size) + 1) |->
        LET lo == start + (k - 1) * batch_size
            hi == lo + batch_size - 1
        IN  NewBatch(lo, IF hi < end THEN hi ELSE end) ]

\* !*is_scanning.lock().unwrap() || is_cancelled.load(Ordering::Relaxed)
Cancelled(sc) == ~ sc.is_scanning \/ sc.is_cancelled

\* the frame of a step of a scan task that pushes nothing
ScanQuiet ==
    /\ UNCHANGED << rx, submitted, handled, app_is_scanning, clicks, scan_sends,
                    scan_results, scan_logs >>
    /\ ScanFrame

\* scan_ip_range up to join_all(tasks): the clearing of results and logs,
\* the first entries and the spawn of the batch tasks; with an address that
\* does not parse, the whole function
ScanStart(s) ==
    /\ s \in 1..Len(scans)
    /\ scans[s].pc = "spawned"
    /\ scan_results' = << >>
    /\ LET sc == scans[s]
           start == ip_to_u32(sc.start_ip)
           end == ip_to_u32(sc.end_ip)
       IN  IF start >= 0 /\ end >= 0
           THEN LET total_ips == end - start + 1
                    total_ports == sc.end_port - sc.start_port + 1
                    batch_size == IF total_ips \div cpu_cores > 1
                                  THEN total_ips \div cpu_cores ELSE 1
                    thread_count == IF total_ips < cpu_cores THEN total_ips
                                    ELSE cpu_cores
                    es == << LogEntry("scan_start", 0, 0),
                             LogEntry("total", total_ips, total_ports),
                             LogEntry("threads", thread_count, 0) >>
                IN  /\ scan_logs' = es
                    /\ scans' = [scans EXCEPT
                          ![s].pc = "joining",
                          ![s].total_ips = total_ips,
                          ![s].batches = Batches(start, end, batch_size),
                          ![s].emitted = Kinds(es)]
           ELSE LET es == << LogEntry("scan_start", 0, 0),
                             LogEntry("invalid_ip", 0, 0) >>
                IN  /\ scan_logs' = es
                    /\ scans' = [scans EXCEPT
                          ![s].pc = "done",
                          ![s].is_scanning = FALSE,
                          ![s].emitted = Kinds(es)]
    /\ UNCHANGED << rx, submitted, handled, app_is_scanning, clicks, scan_sends >>
    /\ ScanFrame

\* the head of for ip_num in batch_start..=batch_end: the end of the loop,
\* the break on cancellation, or the count of the address, the progress
\* entry and the call of scan_ports up to the head of its first chunk
BatchIp(s, b) ==
    /\ s \in 1..Len(scans)
    /\ b \in 1..Len(scans[s].batches)
    /\ scans[s].batches[b].pc = "ip_check"
    /\ LET sc == scans[s]
           bt == sc.batches[b]
           cur == sc.scanned + 1
           progress == cur % 5 = 0 \/ cur = sc.total_ips
       IN  IF bt.ip > bt.hi
           THEN /\ scans' = [scans EXCEPT ![s].batches[b].pc = "done"]
                /\ UNCHANGED scan_logs
           ELSE IF Cancelled(sc)
           THEN /\ scans' = [scans EXCEPT ![s].is_cancelled = TRUE,
                                          ![s].batches[b].pc = "stopped"]
                /\ UNCHANGED scan_logs
           ELSE \E panic \in BOOLEAN :
                  /\ panic => ChunkOverflows(sc.start_port)
                  /\ scans' = [scans EXCEPT
                        ![s].scanned = cur,
                        ![s].emitted = IF progress THEN Append(@, "progress") ELSE @,
                        ![s].batches[b] =
                            EnterChunk(bt, sc.start_port, sc.end_port, panic)]
                  /\ scan_logs' =
                        IF progress
                        THEN Append(scan_logs, LogEntry("progress", cur, sc.total_ips))
                        ELSE scan_logs
    /\ UNCHANGED << rx, submitted, handled, app_is_scanning, clicks, scan_sends,
                    scan_results >>
    /\ ScanFrame

\* scan_ports, the head of for port in port_chunk_start..=port_chunk_end:
\* the return on cancellation, which does not wait for the probes of the
\* chunk, or the spawn of the probe of the port
BatchPort(s, b) ==
    /\ s \in 1..Len(scans)
    /\ b \in 1..Len(scans[s].batches)
    /\ scans[s].batches[b].pc = "port_check"
    /\ LET sc == scans[s]
           bt == sc.batches[b]
           target == << bt.ip, bt.port >>
       IN  IF Cancelled(sc)
           THEN scans' = [scans EXCEPT ![s].is_cancelled = TRUE,
                                       ![s].batches[b].pc = "ip_check",
                                       ![s].batches[b].ip = bt.ip + 1]
           ELSE scans' = [scans EXCEPT
                    ![s].probed = @ \cup {target},
                    ![s].reprobed = IF target \in sc.probed THEN @ \cup {target}
                                    ELSE @,
                    ![s].batches[b].run_open =
                        IF target \in OpenTargets THEN @ \cup {target} ELSE @,
                    ![s].batches[b].run_closed =
                        IF target \in OpenTargets THEN @ ELSE @ + 1,
                    ![s].batches[b].pc =
                        IF bt.port = bt.chunk_end THEN "join" ELSE "port_check",
                    ![s].batches[b].port =
                        IF bt.port = bt.chunk_end THEN @ ELSE @ + 1]
    /\ ScanQuiet

\* a join that does not wait for the probes of the chunk
ChunkJoined_nowait(bt) == TRUE

\* join_all(port_tasks).await returns: every probe of the chunk has run to
\* its end
ChunkJoined(bt) ==
    /\ bt.run_open = {} /\ bt.run_closed = 0
    /\ bt.counted = {} /\ bt.resulted = {}

\* join_all(port_tasks).await and yield_now: the head of the next chunk, or
\* the return of scan_ports to the loop over the addresses
BatchJoin(s, b) ==
    /\ s \in 1..Len(scans)
    /\ b \in 1..Len(scans[s].batches)
    /\ scans[s].batches[b].pc = "join"
    /\ ChunkJoined(scans[s].batches[b])
    /\ LET sc == scans[s]
           bt == sc.batches[b]
           port_chunk_start == bt.chunk_start + chunk_size
       IN  IF port_chunk_start <= sc.end_port
           THEN \E panic \in BOOLEAN :
                  /\ panic => ChunkOverflows(port_chunk_start)
                  /\ scans' = [scans EXCEPT ![s].batches[b] =
                        EnterChunk(bt, port_chunk_start, sc.end_port, panic)]
           ELSE scans' = [scans EXCEPT ![s].batches[b].pc = "ip_check",
                                       ![s].batches[b].ip = bt.ip + 1]
    /\ ScanQuiet

\* the entry a probe of scan task s pushes to scan_results
ResultEntry(s, ip, port) == [scan |-> s, ip |-> u32_to_ip(ip), port |-> port]

\* the entry a probe of scan task s pushes to scan_logs
FoundEntry(s, ip, port) == [kind |-> "found", x |-> ip, y |-> port, scan |-> s]

\* check_port returns in the task of one probe: false, and the task ends,
\* or true, and the task counts the port
ProbeDone(s, b) ==
    /\ s \in 1..Len(scans)
    /\ b \in 1..Len(scans[s].batches)
    /\ \/ /\ scans[s].batches[b].run_closed > 0
          /\ scans' = [scans EXCEPT ![s].batches[b].run_closed = @ - 1]
       \/ \E t \in scans[s].batches[b].run_open :
            scans' = [scans EXCEPT ![s].batches[b].run_open = @ \ {t},
                                   ![s].batches[b].counted = @ \cup {t},
                                   ![s].open_ports = @ + 1]
    /\ ScanQuiet

\* scan_results.lock().unwrap().push(result.clone()) of a probe
ProbeResult(s, b) ==
    /\ s \in 1..Len(scans)
    /\ b \in 1..Len(scans[s].batches)
    /\ \E t \in scans[s].batches[b].counted :
         /\ scans' = [scans EXCEPT ![s].batches[b].counted = @ \ {t},
                                   ![s].batches[b].resulted = @ \cup {t}]
         /\ scan_results' = Append(scan_results, ResultEntry(s, t[1], t[2]))
    /\ UNCHANGED << rx, submitted, handled, app_is_scanning, clicks, scan_sends,
                    scan_logs >>
    /\ ScanFrame

\* scan_logs.lock().unwrap().push((get_timestamp(), found_msg)) of a probe,
\* and the end of its task
ProbeLog(s, b) ==
    /\ s \in 1..Len(scans)
    /\ b \in 1..Len(scans[s].batches)
    /\ \E t \in scans[s].batches[b].resulted :
         /\ scans' = [scans EXCEPT ![s].batches[b].resulted = @ \ {t}]
         /\ scan_logs' = Append(scan_logs, FoundEntry(s, t[1], t[2]))
    /\ UNCHANGED << rx, submitted, handled, app_is_scanning, clicks, scan_sends,
                    scan_results >>
    /\ ScanFrame

\* a scan task that does not wait for its batch tasks
AllBatchesDone_none(sc) == TRUE

\* join_all(tasks).await returns: every batch task has run to its end or
\* has panicked
AllBatchesDone(sc) ==
    \A b \in 1..Len(sc.batches) :
        sc.batches[b].pc \in {"done", "stopped", "panicked"}

\* scan_ip_range after join_all(tasks): the entry of the cancellation, the
\* summary, and the clearing of is_scanning
ScanFinish(s) ==
    /\ s \in 1..Len(scans)
    /\ scans[s].pc = "joining"
    /\ AllBatchesDone(scans[s])
    /\ LET sc == scans[s]
           es == (IF sc.is_cancelled THEN << LogEntry("scan_cancelled", 0, 0) >>
                  ELSE << >>)
                 \o << LogEntry("scan_complete", sc.scanned, sc.open_ports) >>
       IN  /\ scan_logs' = scan_logs \o es
           /\ scans' = [scans EXCEPT ![s].pc = "done",
                                     ![s].is_scanning = FALSE,
                                     ![s].final = << sc.scanned, sc.open_ports >>,
                                     ![s].emitted = @ \o Kinds(es)]
    /\ UNCHANGED << rx, submitted, handled, app_is_scanning, clicks, scan_sends,
                    scan_results >>
    /\ ScanFrame

\* the collaborator has the scan panel filled in and the command loop waits
InitScan ==
    /\ rx = << >> /\ submitted = 0 /\ handled = 0
    /\ mpc = "recv" /\ cur_cmd = [op |-> "none"]
    /\ has_connection = FALSE /\ conn_rx = << >> /\ data_file = 0 /\ nconn = 0
    /\ send_tasks = << >> /\ messages = << >> /\ written = << >>
    /\ receivers = << >> /\ faults = 0
    /\ encoding_mode = "Utf8" /\ recv_tasks = << >> /\ recv_env = 0
    /\ form \in ScanForms
    /\ checked = NotChecked
    /\ conv = NotConverted(DefaultForm.start_ip, << 32512, 1 >>)
    /\ ScanIdle
    /\ cpu_cores \in CpuCores

NextScan ==
    \/ StartScan
    \/ StopScan
    \/ SendScanIp
    \/ ScanIp
    \/ \E s \in 1..Len(scans) : ScanStart(s)
    \/ \E s \in 1..Len(scans) : \E b \in 1..Len(scans[s].batches) : BatchIp(s, b)
    \/ \E s \in 1..Len(scans) : \E b \in 1..Len(scans[s].batches) : BatchPort(s, b)
    \/ \E s \in 1..Len(scans) : \E b \in 1..Len(scans[s].batches) : BatchJoin(s, b)
    \/ \E s \in 1..Len(scans) : \E b \in 1..Len(scans[s].batches) : ProbeDone(s, b)
    \/ \E s \in 1..Len(scans) : \E b \in 1..Len(scans[s].batches) : ProbeResult(s, b)
    \/ \E s \in 1..Len(scans) : \E b \in 1..Len(scans[s].batches) : ProbeLog(s, b)
    \/ \E s \in 1..Len(scans) : ScanFinish(s)

\* the scan panel, the ScanIp handler of the command loop and the scan tasks
SpecScan == InitScan /\ [][NextScan]_vars

\* ---------------------------------------------------- one scan task alone
\* the forms of the scans that run alone: one address with 52 ports, one
\* address with the largest port, and one address with the ports 65486 to
\* 65490; every form passes the validation of the click handler
TaskForms ==
    LET a == << "1", ".", "0", ".", "0", ".", "1" >>
        f(sp, ep) ==
            [start_ip |-> a, end_ip |-> a, start_port |-> sp, end_port |-> ep,
             timeout_ms |-> << "5" >>]
    IN  { f(<< "1" >>, << "5", "2" >>),
          f(<< "6", "5", "5", "3", "5" >>, << "6", "5", "5", "3", "5" >>),
          f(<< "6", "5", "4", "8", "6" >>, << "6", "5", "4", "9", "0" >>) }

\* the state in which one click has started a scan and the command loop
\* has handled its ScanIp: the scan task is spawned
InitScanTask ==
    /\ rx = << >> /\ submitted = 1 /\ handled = 1
    /\ mpc = "recv" /\ cur_cmd = [op |-> "none"]
    /\ has_connection = FALSE /\ conn_rx = << >> /\ data_file = 0 /\ nconn = 0
    /\ send_tasks = << >> /\ messages = << >> /\ written = << >>
    /\ receivers = << >> /\ faults = 0
    /\ encoding_mode = "Utf8" /\ recv_tasks = << >> /\ recv_env = 0
    /\ form \in TaskForms
    /\ checked = NotChecked
    /\ conv = NotConverted(DefaultForm.start_ip, << 32512, 1 >>)
    /\ app_is_scanning = TRUE
    /\ clicks = 1
    /\ scan_sends = << >>
    /\ scan_results = << >>
    /\ scan_logs = << LogEntry("task_started", 0, 0) >>
    /\ scans = << NewScan(ScanIpCommand(form)) >>
    /\ cpu_cores \in CpuCores

NextScanTask ==
    \/ \E s \in 1..Len(scans) : ScanStart(s)
    \/ \E s \in 1..Len(scans) : \E b \in 1..Len(scans[s].batches) : BatchIp(s, b)
    \/ \E s \in 1..Len(scans) : \E b \in 1..Len(scans[s].batches) : BatchPort(s, b)
    \/ \E s \in 1..Len(scans) : \E b \in 1..Len(scans[s].batches) : BatchJoin(s, b)
    \/ \E s \in 1..Len(scans) : \E b \in 1..Len(scans[s].batches) : ProbeDone(s, b)
    \/ \E s \in 1..Len(scans) : \E b \in 1..Len(scans[s].batches) : ProbeResult(s, b)
    \/ \E s \in 1..Len(scans) : \E b \in 1..Len(scans[s].batches) : ProbeLog(s, b)
    \/ \E s \in 1..Len(scans) : ScanFinish(s)

\* one scan task from its spawn to its end, with no further click
SpecScanTask == InitScanTask /\ [][NextScanTask]_vars

\* the stop request as the specification of the program describes it: the
\* running flag of a scan in progress is cleared.  No code of the program
\* clears the flag before the scan has ended: connection.rs keeps the only
\* other reference to it.
ClearRunning(s) ==
    /\ s \in 1..Len(scans)
    /\ scans[s].pc \in {"spawned", "joining"}
    /\ scans[s].is_scanning
    /\ clicks < MaxClicks
    /\ clicks' = clicks + 1
    /\ scans' = [scans EXCEPT ![s].is_scanning = FALSE]
    /\ UNCHANGED << rx, submitted, handled, app_is_scanning, scan_sends,
                    scan_results, scan_logs >>
    /\ ScanFrame

NextScanCancel ==
    \/ NextScan
    \/ \E s \in 1..Len(scans) : ClearRunning(s)

\* the scanner with a stop request that reaches the running flag
SpecScanCancel == InitScan /\ [][NextScanCancel]_vars

NextScanTaskCancel ==
    \/ NextScanTask
    \/ \E s \in 1..Len(scans) : ClearRunning(s)

\* one scan task with a stop request that reaches its running flag
SpecScanTaskCancel == InitScanTask /\ [][NextScanTaskCancel]_vars

\* ------------------------------------------- the batches of the addresses
\* The partition of scan_ip_range on the whole range of u32: the addresses
\* are pairs of 16-bit halves.  The scan is not cancelled and the probes of
\* scan_ports are left out: a batch task counts its addresses one by one.

\* a <= b in u32
LeU32(a, b) == a[1] < b[1] \/ (a[1] = b[1] /\ a[2] <= b[2])

\* a + n in u32 leaves the type (n below 65536)
AddOverflowsU32(a, n) == a[1] = 65535 /\ a[2] + n > 65535

\* a.wrapping_add(n), n below 65536
WrappingAddU32(a, n) ==
    << (a[1] + ((a[2] + n) \div 65536)) % 65536, (a[2] + n) % 65536 >>

\* a.wrapping_sub(1)
WrappingPredU32(a) ==
    IF a[2] > 0 THEN << a[1], a[2] - 1 >>
    ELSE << (a[1] + 65535) % 65536, 65535 >>

\* end - start + 1 of two addresses of a valid range
TotalIps(start, end) == (end[1] - start[1]) * 65536 + (end[2] - start[2]) + 1

\* std::cmp::max(1, total_ips_usize / cpu_cores)
BatchSize(total_ips, cores) ==
    IF total_ips \div cores > 1 THEN total_ips \div cores ELSE 1

\* std::cmp::min(total_ips_usize, cpu_cores)
ThreadCount(total_ips, cores) == IF total_ips < cores THEN total_ips ELSE cores

\* the k-th value of (start..=end).step_by(batch_size)
BatchStart(start, k, batch_size) == WrappingAddU32(start, (k - 1) * batch_size)

\* std::cmp::min(batch_start + batch_size as u32 - 1, end), with the
\* wrapping arithmetic of a build without overflow checks
BatchEnd(batch_start, batch_size, end) ==
    LET e == WrappingPredU32(WrappingAddU32(batch_start, batch_size))
    IN  IF LeU32(e, end) THEN e ELSE end

\* the task of the batch lo..=hi at its spawn: next is the address the loop
\* is at, exhausted that the loop has ended
NewBatchTask(lo, hi) ==
    [lo |-> lo, hi |-> hi, next |-> lo, exhausted |-> ~ LeU32(lo, hi)]

\* the address ranges that are partitioned, as (start, end): five addresses
\* low in the range of u32, five across a carry of the lower half, five
\* that end at the highest address, five that end one below it, three
\* addresses, and the highest address alone
PartRanges ==
    { << << 256, 1 >>, << 256, 5 >> >>,
      << << 0, 65534 >>, << 1, 2 >> >>,
      << << 65535, 65531 >>, << 65535, 65535 >> >>,
      << << 65535, 65530 >>, << 65535, 65534 >> >>,
      << << 256, 1 >>, << 256, 3 >> >>,
      << << 65535, 65535 >>, << 65535, 65535 >> >> }

\* scan_ip_range with the addresses start and end before its partition;
\* scanned is the counter of the same name, visited the addresses a batch
\* task has counted and revisited those counted again
NotPartitioned(start, end) ==
    [start |-> start, end |-> end, pc |-> "start", total_ips |-> 0,
     thread_count |-> 0, batches |-> << >>, scanned |-> 0, visited |-> {},
     revisited |-> {}, final_scanned |-> 0]

\* the loop that spawns the batch tasks.  checks = the build has overflow
\* checks: the function panics at the first batch whose end overflows,
\* with the tasks of the batches before it spawned
Partition ==
    /\ conv.pc = "start"
    /\ \E checks \in BOOLEAN :
         LET total_ips == TotalIps(conv.start, conv.end)
             batch_size == BatchSize(total_ips, cpu_cores)
             n == ((total_ips - 1) \div batch_size) + 1
             start_of(k) == BatchStart(conv.start, k, batch_size)
             over == { k \in 1..n : AddOverflowsU32(start_of(k), batch_size) }
             spawned == IF checks /\ over # {}
                        THEN (CHOOSE k \in over : \A j \in over : k <= j) - 1
                        ELSE n
         IN  /\ (checks => over # {})
             /\ conv' = [conv EXCEPT
                   !.pc = IF checks THEN "panicked" ELSE "joining",
                   !.total_ips = total_ips,
                   !.thread_count = ThreadCount(total_ips, cpu_cores),
                   !.batches = [ k \in 1..spawned |->
                                   NewBatchTask(start_of(k),
                                       BatchEnd(start_of(k), batch_size, conv.end)) ]]
    /\ ConvFrame

\* one turn of for ip_num in batch_start..=batch_end up to the fetch_add of
\* scanned
BatchVisit(b) ==
    /\ conv.pc \in {"joining", "panicked"}
    /\ b \in 1..Len(conv.batches)
    /\ ~ conv.batches[b].exhausted
    /\ LET bt == conv.batches[b]
       IN  conv' = [conv EXCEPT
               !.scanned = @ + 1,
               !.visited = @ \cup {bt.next},
               !.revisited = IF bt.next \in conv.visited THEN @ \cup {bt.next} ELSE @,
               !.batches[b].next = IF bt.next = bt.hi THEN bt.next
                                   ELSE WrappingAddU32(bt.next, 1),
               !.batches[b].exhausted = (bt.next = bt.hi)]
    /\ ConvFrame

\* join_all(tasks) returns and the function loads the final count
PartitionJoin ==
    /\ conv.pc = "joining"
    /\ \A b \in 1..Len(conv.batches) : conv.batches[b].exhausted
    /\ conv' = [conv EXCEPT !.pc = "done", !.final_scanned = conv.scanned]
    /\ ConvFrame

\* any of the ranges, on any of the numbers of cores
InitPartition ==
    /\ rx = << >> /\ submitted = 0 /\ handled = 0
    /\ mpc = "recv" /\ cur_cmd = [op |-> "none"]
    /\ has_connection = FALSE /\ conn_rx = << >> /\ data_file = 0 /\ nconn = 0
    /\ send_tasks = << >> /\ messages = << >> /\ written = << >>
    /\ receivers = << >> /\ faults = 0
    /\ encoding_mode = "Utf8" /\ recv_tasks = << >> /\ recv_env = 0
    /\ form = DefaultForm
    /\ checked = NotChecked
    /\ \E r \in PartRanges : conv = NotPartitioned(r[1], r[2])
    /\ ScanIdle
    /\ cpu_cores \in CpuCores

NextPartition ==
    \/ Partition
    \/ \E b \in 1..Len(conv.batches) : BatchVisit(b)
    \/ PartitionJoin

\* the partition of an address range into batches and the count of the
\* addresses
SpecPartition == InitPartition /\ [][NextPartition]_vars

\* ------------------------------------------ the occupancy of the channel
\* The channel conn_tx/conn_rx by the number of write halves it holds, for
\* behaviours of any number of commands: the command loop takes a command
\* as soon as it is at rx.recv(), and the event sink, the data file and the
\* bytes on the sockets are left out.  slot is the number of write halves
\* in the channel, in_flight the number of send tasks before the end of
\* their write and returning the number of those at conn_tx_clone.send.

\* the command loop before its first command
SlotIdle ==
    [mpc |-> "recv", has_connection |-> FALSE, slot |-> 0, in_flight |-> 0,
     returning |-> 0]

\* Message::Connect up to the await of TcpStream::connect: the flag is
\* cleared and the channel is drained
SlotConnectBegin ==
    /\ conv.mpc = "recv"
    /\ conv' = [conv EXCEPT !.mpc = "connecting", !.has_connection = FALSE,
                            !.slot = 0]
    /\ ConvFrame

\* TcpStream::connect returns: with a stream the handler goes on to put the
\* write half, with an error, also of into_std, it is done
SlotConnectFinish ==
    /\ conv.mpc = "connecting"
    /\ \E res \in {"ok", "std_err", "err"} :
         IF res = "ok"
         THEN /\ conv.slot + conv.in_flight + conv.returning < MaxHandles
              /\ conv' = [conv EXCEPT !.mpc = "putting", !.has_connection = TRUE]
         ELSE conv' = [conv EXCEPT !.mpc = "recv"]
    /\ ConvFrame

\* conn_tx.send(write_half).await returns: the channel had room
SlotConnectPut ==
    /\ conv.mpc = "putting"
    /\ conv.slot < ConnChanCap
    /\ conv' = [conv EXCEPT !.mpc = "recv", !.slot = @ + 1]
    /\ ConvFrame

\* Message::Disconnect
SlotDisconnect ==
    /\ conv.mpc = "recv"
    /\ conv' = IF conv.has_connection
               THEN [conv EXCEPT !.has_connection = FALSE, !.slot = 0]
               ELSE conv
    /\ conv' # conv
    /\ ConvFrame

\* Message::Send with a write half in the channel: try_recv and the spawn
\* of the send task
SlotSend ==
    /\ conv.mpc = "recv"
    /\ conv.has_connection
    /\ conv.slot > 0
    /\ conv' = [conv EXCEPT !.slot = @ - 1, !.in_flight = @ + 1]
    /\ ConvFrame

\* write_all and flush of a send task return Ok: the task goes on to
\* return the write half
SlotTaskWritten ==
    /\ conv.in_flight > 0
    /\ conv' = [conv EXCEPT !.in_flight = @ - 1, !.returning = @ + 1]
    /\ ConvFrame

\* write_all or flush of a send task returns Err: the write half is dropped
SlotTaskFailed ==
    /\ conv.in_flight > 0
    /\ conv' = [conv EXCEPT !.in_flight = @ - 1]
    /\ ConvFrame

\* conn_tx_clone.send(stream).await of a send task returns: the channel had
\* room
SlotTaskReturn ==
    /\ conv.returning > 0
    /\ conv.slot < ConnChanCap
    /\ conv' = [conv EXCEPT !.returning = @ - 1, !.slot = @ + 1]
    /\ ConvFrame

\* the command loop and no connection
InitSlot ==
    /\ rx = << >> /\ submitted = 0 /\ handled = 0
    /\ mpc = "recv" /\ cur_cmd = [op |-> "none"]
    /\ has_connection = FALSE /\ conn_rx = << >> /\ data_file = 0 /\ nconn = 0
    /\ send_tasks = << >> /\ messages = << >> /\ written = << >>
    /\ receivers = << >> /\ faults = 0
    /\ encoding_mode = "Utf8" /\ recv_tasks = << >> /\ recv_env = 0
    /\ form = DefaultForm
    /\ checked = NotChecked
    /\ conv = SlotIdle
    /\ ScanIdle
    /\ cpu_cores = 1

NextSlot ==
    \/ SlotConnectBegin
    \/ SlotConnectFinish
    \/ SlotConnectPut
    \/ SlotDisconnect
    \/ SlotSend
    \/ SlotTaskWritten
    \/ SlotTaskFailed
    \/ SlotTaskReturn

\* the number of write halves in the channel over any number of commands
SpecSlot == InitSlot /\ [][NextSlot]_vars

\* ------------------------------------------------- vocabulary of the claims
\* the command loop takes a command of kind op off the queue in this step
HandlesOp(op) == mpc = "recv" /\ rx # << >> /\ Head(rx).op = op /\ rx' = Tail(rx)

\* the send task is writing to its write half
Writing(t) == t.pc = "spawned"

\* the socket of the most recently established connection (0 before the first)
LatestStream == IF receivers = << >> THEN 0 ELSE receivers[Len(receivers)]

\* the kind of the last lifecycle event in the sink ("" when there is none)
LifecycleKinds == {"connected", "connect_failed", "socket_failed", "disconnected"}
LastLifecycle ==
    LET I == { i \in 1..Len(messages) : messages[i].kind \in LifecycleKinds }
    IN  IF I = {} THEN ""
        ELSE messages[CHOOSE i \in I : \A j \in I : j <= i].kind

\* ---------------------------------------------------------------------- C1
\* C1: at most one send task is writing at any time, and no write half is
\* held by two send tasks at once.
C1_OneSendInFlight ==
    /\ Cardinality({ i \in 1..Len(send_tasks) : Writing(send_tasks[i]) }) <= 1
    /\ \A i, j \in 1..Len(send_tasks) :
         (i # j /\ InFlight(send_tasks[i]) /\ InFlight(send_tasks[j]))
            => send_tasks[i].stream # send_tasks[j].stream

\* ---------------------------------------------------------------------- C2
\* C2: the channel holds at most one write half, and when it holds one it is
\* the write half of the most recently established connection.
C2_SlotHoldsLatest ==
    /\ Len(conn_rx) <= 1
    /\ conn_rx # << >> => conn_rx[1] = LatestStream

\* the last entry of the event sink has kind k
LastKind(k) == messages # << >> /\ messages[Len(messages)].kind = k

\* ---------------------------------------------------------------------- C3
\* C3: a Send handled while the flag is set and the channel holds no write
\* half appends exactly the one "busy" event, writes nothing, spawns no task,
\* leaves the command off the queue, and leaves flag and channel as they are.
C3_BusySend ==
    [][ (HandlesOp("Send") /\ has_connection /\ conn_rx = << >>)
          => /\ messages' = Append(messages, Ev("busy", << >>, ""))
             /\ written' = written
             /\ send_tasks' = send_tasks
             /\ rx' = Tail(rx)
             /\ has_connection' = has_connection
             /\ conn_rx' = conn_rx ]_vars

\* a Send was refused as busy while a send task holds the write half
C3_Witness ==
    /\ LastKind("busy")
    /\ has_connection
    /\ conn_rx = << >>
    /\ \E i \in 1..Len(send_tasks) : InFlight(send_tasks[i])

\* ---------------------------------------------------------------------- C4
\* C4: a Send handled while the flag is clear appends exactly the one
\* "not connected" event, writes nothing, spawns no task and takes nothing
\* from the channel.
C4_NotConnectedSend ==
    [][ (HandlesOp("Send") /\ ~ has_connection)
          => /\ messages' = Append(messages, Ev("not_connected", << >>, ""))
             /\ written' = written
             /\ send_tasks' = send_tasks
             /\ conn_rx' = conn_rx
             /\ has_connection' = has_connection ]_vars

\* a Send was refused as not connected although the channel holds a write half
C4_Witness ==
    /\ LastKind("not_connected")
    /\ ~ has_connection
    /\ conn_rx # << >>

\* ---------------------------------------------------------------------- C5
\* C5: a send task whose write succeeded appends one "sent" event with the
\* text and encoding of its command and then puts its write half back into
\* the channel; a send task whose write failed appends one "send failed"
\* event, and its write half is never in the channel afterwards.
C5_SendTaskOutcome ==
    [][ \A i \in 1..Len(send_tasks) :
          LET t == send_tasks[i]
              u == send_tasks'[i]
          IN  /\ (t.pc = "written" /\ u.pc # "written")
                    => /\ u.pc = "returning"
                       /\ Len(messages') > Len(messages)
                       /\ SubSeq(messages', 1, Len(messages)) = messages
                       /\ messages'[Len(messages) + 1] = Ev("sent", t.data, t.enc)
                       /\ CountKind(messages', "sent") = CountKind(messages, "sent") + 1
              /\ (t.pc = "returning" /\ u.pc # "returning")
                    => /\ u.pc = "done"
                       /\ conn_rx' = Append(conn_rx, t.stream)
              /\ (t.pc = "write_err" /\ u.pc # "write_err")
                    => /\ u.pc = "failed"
                       /\ messages' = Append(messages, Ev("send_failed", << >>, ""))
              /\ t.pc \in {"write_err", "failed"}
                    => /\ u.pc \in {"write_err", "failed"}
                       /\ Count(conn_rx', t.stream) = 0 ]_vars

\* a send task returned its write half, a later Send took it, and that
\* later task failed and dropped it
C5_Witness ==
    \E i, j \in 1..Len(send_tasks) :
        /\ i < j
        /\ send_tasks[i].pc = "done"
        /\ send_tasks[j].stream = send_tasks[i].stream
        /\ send_tasks[j].pc = "failed"
        /\ CountKind(messages, "sent") = 1
        /\ CountKind(messages, "send_failed") = 1
        /\ conn_rx = << >>

\* ---------------------------------------------------------------------- C6
\* C6: once a send on the current connection has failed, the flag stays set
\* and every Send handled before the next Connect or Disconnect is refused
\* as busy: no task is spawned and nothing is written.
C6_FailedSendThenBusy ==
    [][ /\ \A i \in 1..Len(send_tasks) :
             (send_tasks[i].pc = "write_err" /\ send_tasks'[i].pc = "failed")
                => has_connection' = has_connection
        /\ ( /\ HandlesOp("Send")
             /\ has_connection
             /\ \E i \in 1..Len(send_tasks) :
                  /\ send_tasks[i].pc = "failed"
                  /\ send_tasks[i].stream = LatestStream )
              => /\ messages' = Append(messages, Ev("busy", << >>, ""))
                 /\ send_tasks' = send_tasks
                 /\ written' = written
                 /\ has_connection' ]_vars

\* ---------------------------------------------------------------------- C7
\* C7: a Disconnect handled while the flag is set empties the channel,
\* clears the flag and appends exactly one "disconnected" event; a Send
\* handled after it with no Connect in between is refused as not connected.
C7_Disconnect ==
    [][ /\ (HandlesOp("Disconnect") /\ has_connection)
             => /\ conn_rx' = << >>
                /\ ~ has_connection'
                /\ CountKind(messages', "disconnected")
                     = CountKind(messages, "disconnected") + 1
                /\ LastKind("disconnected")'
        /\ (HandlesOp("Send") /\ LastLifecycle = "disconnected")
             => messages' = Append(messages, Ev("not_connected", << >>, "")) ]_vars

\* the write half of the only connection was in the channel (no send task
\* ever took it), a Disconnect removed it, and a later Send was refused
C7_Witness ==
    /\ Len(receivers) = 1
    /\ send_tasks = << >>
    /\ conn_rx = << >>
    /\ ~ has_connection
    /\ LastLifecycle = "disconnected"
    /\ LastKind("not_connected")

\* ---------------------------------------------------------------------- C8
\* C8: a Disconnect handled while the flag is clear leaves flag and channel
\* as they are and appends exactly one "disconnected" event.
C8_IdleDisconnect ==
    [][ (HandlesOp("Disconnect") /\ ~ has_connection)
          => /\ has_connection' = has_connection
             /\ conn_rx' = conn_rx
             /\ CountKind(messages', "disconnected")
                  = CountKind(messages, "disconnected") + 1 ]_vars

\* ---------------------------------------------------------------------- C9
\* C9: a Connect handled while the flag is set clears the flag and empties
\* the channel before the attempt; when the attempt fails, exactly the one
\* "connection failed" event is appended, the flag is clear, the channel is
\* empty and no receiver is spawned.
C9_Reconnect ==
    [][ /\ (HandlesOp("Connect") /\ has_connection)
             => /\ ~ has_connection'
                /\ conn_rx' = << >>
        /\ ( /\ mpc = "connecting"
             /\ cur_cmd.was_connected
             /\ mpc' = "recv"
             /\ nconn' = nconn )
             => /\ messages' = Append(messages,
                                      Ev("connect_failed", << cur_cmd.addr >>, ""))
                /\ ~ has_connection'
                /\ conn_rx' = << >>
                /\ receivers' = receivers ]_vars

\* --------------------------------------------------------------------- C10
\* C10: when the handling of a Connect that succeeds is complete, the flag
\* is set, the write half of the new socket is in the channel, exactly one
\* receiver has been spawned over the new socket, and one "connected" event
\* has been appended for it.
C10_ConnectOk ==
    [][ /\ (mpc = "connecting" /\ mpc' = "putting")
             => /\ has_connection'
                /\ CountKind(messages', "connected")
                     = CountKind(messages, "connected") + 1
        /\ (mpc = "putting" /\ mpc' = "recv")
             => /\ has_connection'
                /\ conn_rx' # << >>
                /\ conn_rx'[Len(conn_rx')] = cur_cmd.stream
                /\ Count(conn_rx', cur_cmd.stream) = 1
                /\ Count(receivers, cur_cmd.stream) = 0
                /\ Count(receivers', cur_cmd.stream) = 1
                /\ Len(receivers') = Len(receivers) + 1
                /\ CountKind(messages', "connected") = Len(receivers') ]_vars

\* a Connect has just succeeded: connected, the new write half alone in
\* the channel, its receiver spawned
C10_Witness ==
    /\ mpc = "recv"
    /\ has_connection
    /\ receivers # << >>
    /\ conn_rx = << LatestStream >>
    /\ LatestStream = nconn
    /\ messages # << >>
    /\ messages[Len(messages)].kind \in {"file_created", "file_create_failed"}

\* C11: the command loop takes every submitted command off the queue exactly
\* once and in queue order: the queue changes only by a command appended at
\* its end or by the loop taking its first command, every submitted command
\* is either waiting or taken, and the loop takes a command only when the
\* handler of the command before it has run to its end.
C11_ConsumedOnceInOrder ==
    /\ [](submitted = handled + Len(rx))
    /\ [][(\/ rx' = rx
           \/ (rx # << >> /\ rx' = Tail(rx))
           \/ (\E c \in Commands : rx' = Append(rx, c)))
          /\ (handled' # handled =>
                (/\ handled' = handled + 1
                 /\ mpc = "recv" /\ cur_cmd.op = "none"
                 /\ rx # << >> /\ rx' = Tail(rx)))
          /\ (Len(rx') < Len(rx) => handled' = handled + 1)]_vars

\* two commands are taken and a third waits while the handler of the second
\* is suspended in its connect
C11_Witness == handled >= 2 /\ rx # << >> /\ mpc = "connecting"

\* ------------------------------------------------ the claims on the receiver
\* the kinds of the events that classify a read error
ClassKinds == {"err_reset", "err_aborted", "err_timed_out", "err_would_block",
               "err_interrupted", "err_read"}

\* the receiver task i has left its loop for good
Stopped(i) == recv_tasks[i].pc \in {"closing", "done"}

\* C12 as stated: a receiver that has read 0 bytes has stopped, and a
\* receiver that has run to its end has pushed "receive channel closed"
\* exactly once, as the last of its events.
C12_ClosedIsLast ==
    \A i \in 1..Len(recv_tasks) :
        LET t == recv_tasks[i]
        IN  /\ Count(t.emitted, "server_closed") > 0 => Stopped(i)
            /\ t.pc = "done" =>
                  /\ Count(t.emitted, "recv_closed") = 1
                  /\ t.emitted[Len(t.emitted)] = "recv_closed"

\* C12, amended: a receiver that has read 0 bytes has pushed "server closed
\* connection" and has stopped; a receiver that has run to its end, after
\* EOF or after a read error, has pushed "receive channel closed" exactly
\* once, and after it nothing but the one notice of a failed write of that
\* entry to the data file; a receiver that has stopped reads no more, and one
\* that has run to its end does nothing more.
C12_ClosedOnce ==
    /\ [](\A i \in 1..Len(recv_tasks) :
            LET t == recv_tasks[i]
                n == Len(t.emitted)
            IN  /\ Count(t.emitted, "server_closed") > 0 => Stopped(i)
                /\ t.pc # "done" => Count(t.emitted, "recv_closed") = 0
                /\ t.pc = "done" =>
                      /\ Count(t.emitted, "recv_closed") = 1
                      /\ \/ t.emitted[n] = "recv_closed"
                         \/ /\ t.file # 0
                            /\ t.emitted[n] = "file_write_failed"
                            /\ t.emitted[n - 1] = "recv_closed")
    /\ [][\A i \in 1..Len(recv_tasks) :
            /\ Stopped(i) => (recv_tasks'[i].pc \in {"closing", "done"}
                              /\ recv_tasks'[i].buf = recv_tasks[i].buf)
            /\ recv_tasks[i].pc = "done" => recv_tasks'[i] = recv_tasks[i]]_vars

\* a receiver has read 0 bytes and has run to its end, and the write of its
\* last entry to the data file has failed
C12_Witness ==
    \E i \in 1..Len(recv_tasks) :
        LET t == recv_tasks[i]
        IN  /\ t.pc = "done"
            /\ t.err = "none"
            /\ Count(t.emitted, "server_closed") = 1
            /\ t.emitted[Len(t.emitted)] = "file_write_failed"
            /\ t.emitted[Len(t.emitted) - 1] = "recv_closed"

\* C13: a read error ends the loop without another read; the receiver has
\* pushed one classification event, and it has pushed "connection
\* interrupted", after the classification event, exactly when the kind of
\* the error is ConnectionReset, ConnectionAborted or BrokenPipe.
C13_ReadError ==
    \A i \in 1..Len(recv_tasks) :
        LET t == recv_tasks[i]
            em == t.emitted
            nclass == Cardinality({ j \in 1..Len(em) : em[j] \in ClassKinds })
        IN  /\ t.err = "none" => nclass = 0 /\ Count(em, "conn_interrupted") = 0
            /\ t.err # "none" =>
                  /\ Stopped(i)
                  /\ nclass = 1
                  /\ Count(em, "conn_interrupted") =
                        (IF t.err \in {"ConnectionReset", "ConnectionAborted", "BrokenPipe"}
                         THEN 1 ELSE 0)
                  /\ \A k \in 1..Len(em) :
                        em[k] = "conn_interrupted" =>
                            \E j \in 1..(k - 1) : em[j] \in ClassKinds

\* a read has failed with BrokenPipe, which has no classification of its
\* own, and the receiver has pushed the follow-up and has run to its end
C13_Witness ==
    \E i \in 1..Len(recv_tasks) :
        /\ recv_tasks[i].err = "BrokenPipe"
        /\ recv_tasks[i].pc = "done"
        /\ Count(recv_tasks[i].emitted, "err_read") = 1
        /\ Count(recv_tasks[i].emitted, "conn_interrupted") = 1

\* C14: the event of a chunk of n > 0 bytes follows the value the shared
\* encoding mode has when the chunk is rendered: in Hex the uppercase hex of
\* its bytes, two digits a byte, joined by spaces, with no attempt at UTF-8;
\* in Utf8 the decoded text when the bytes are UTF-8 and the hex dump when
\* they are not.
C14_RenderByCurrentMode ==
    [][\A i \in 1..Len(recv_tasks) :
         (recv_tasks[i].pc = "render" /\ recv_tasks'[i].pc # "render") =>
            LET b == recv_tasks[i].buf
                e == messages'[Len(messages) + 1]
            IN  /\ Len(messages') > Len(messages)
                /\ SubSeq(messages', 1, Len(messages)) = messages
                /\ encoding_mode = "Hex" =>
                      /\ e.kind = "received_hex"
                      /\ e.text = hex_data_join(b)
                      /\ Len(e.text) = 3 * Len(b) - 1
                /\ (encoding_mode = "Utf8" /\ from_utf8(b).ok) =>
                      /\ e.kind = "received_utf8"
                      /\ e.text = from_utf8(b).text
                /\ (encoding_mode = "Utf8" /\ ~ from_utf8(b).ok) =>
                      /\ e.kind = "received_non_utf8"
                      /\ e.text = hex_data_join(b)]_vars

\* one receiver has rendered the same bytes as text and, after a change of
\* the mode, as hex
C14_Witness ==
    \E j \in 1..Len(messages), k \in 1..Len(messages) :
        /\ j < k
        /\ messages[j] = Ev("received_utf8", << "4", "1" >>, "")
        /\ messages[k] = Ev("received_hex", << "3", "4", " ", "3", "1" >>, "")

\* --------------------------------------------- the claims on the range checks
\* the address a text of an address field stands for, as a number; -1 when
\* it stands for none
IpMeaning(t) ==
    CASE t = << "1", ".", "0", ".", "0", ".", "1" >> -> 16777217
      [] t = << "1", ".", "0", ".", "0", ".", "2" >> -> 16777218
      [] t = << "1", ".", "0", ".", "3", ".", "2", "3", "3" >> -> 16778217
      [] t = << "1", ".", "0", ".", "3", ".", "2", "3", "4" >> -> 16778218
      [] OTHER -> -1

\* the port a text of a port field stands for; -1 when it stands for none
PortMeaning(t) ==
    CASE t = << "1" >> -> 1
      [] t = << "2" >> -> 2
      [] t = << "1", "0", "0", "1" >> -> 1001
      [] t = << "1", "0", "0", "2" >> -> 1002
      [] t = << "6", "5", "5", "3", "5" >> -> 65535
      [] t = << "+", "1" >> -> 1
      [] t = << "5", "2" >> -> 52
      [] t = << "6", "5", "4", "8", "6" >> -> 65486
      [] t = << "6", "5", "4", "9", "0" >> -> 65490
      [] OTHER -> -1

\* both ends stand for a value, the start is not above the end, and the end
\* is at most 1000 above the start
InRange(s, e) == s >= 0 /\ e >= 0 /\ s <= e /\ e - s <= 1000

RangeViolated(f) ==
    LET si == IpMeaning(f.start_ip)
        ei == IpMeaning(f.end_ip)
        sp == PortMeaning(f.start_port)
        ep == PortMeaning(f.end_port)
    IN  /\ si >= 0 /\ ei >= 0 /\ sp >= 0 /\ ep >= 0
        /\ (si > ei \/ ei - si > 1000 \/ sp > ep \/ ep - sp > 1000)

\* the scan task s is in progress
InProgress(s) == scans[s].pc \in {"spawned", "joining"}

\* C15: a scan request whose address range or port range has its start
\* above its end or spans more than 1000 is rejected at the click: no
\* command is sent, no scan task, batch or probe is spawned, the results
\* stay empty, and the log gets one rejection entry a click and nothing else.
C15_RangeRejected ==
    RangeViolated(form) =>
        /\ scan_sends = << >> /\ rx = << >> /\ handled = 0
        /\ scans = << >>
        /\ scan_results = << >>
        /\ ~ app_is_scanning
        /\ Len(scan_logs) = clicks
        /\ \A j \in 1..Len(scan_logs) :
              scan_logs[j] \in { LogEntry("rej_ip_range", 0, 0),
                                 LogEntry("rej_port_range", 0, 0) }

\* a request with the start address above the end address has been made
\* and rejected
C15_Witness ==
    /\ RangeViolated(form)
    /\ IpMeaning(form.start_ip) > IpMeaning(form.end_ip)
    /\ clicks >= 1
    /\ scan_logs[1].kind = "rej_ip_range"

C18_ProbesCompleteAtStop ==
    \A s \in 1..Len(scans) :
        \A b \in 1..Len(scans[s].batches) :
            scans[s].batches[b].pc = "stopped" =>
                /\ scans[s].batches[b].run_open = {}
                /\ scans[s].batches[b].run_closed = 0
                /\ scans[s].batches[b].counted = {}
                /\ scans[s].batches[b].resulted = {}

\* C19 as stated: a stop request clears the running flag of every scan in
\* progress.
C19_StopClearsRunning ==
    [][(app_is_scanning /\ ~ app_is_scanning') =>
          \A s \in 1..Len(scans) : InProgress(s) => ~ scans'[s].is_scanning]_vars

ProbesInFlight(bt) ==
    bt.run_closed + Cardinality(bt.run_open) + Cardinality(bt.counted)
        + Cardinality(bt.resulted)

\* the first port of the chunk of 50 that port p of a scan from port
\* start_port on lies in
ChunkStartOf(start_port, p) == start_port + 50 * ((p - start_port) \div 50)

\* C21: a batch task has at most 50 probes in flight, and when it is about
\* to spawn the probe of a port, the probes it has in flight are probes of
\* earlier ports of the same chunk of 50: at the first port of a chunk no
\* probe of the chunk before is in flight.
C21_ChunksOfFifty ==
    \A s \in 1..Len(scans) :
        \A b \in 1..Len(scans[s].batches) :
            LET bt == scans[s].batches[b]
            IN  /\ ProbesInFlight(bt) <= 50
                /\ bt.pc = "port_check" =>
                      ProbesInFlight(bt)
                          <= bt.port - ChunkStartOf(scans[s].start_port, bt.port)

\* a batch task is about to spawn the first probe of the second chunk, after
\* the 50 probes of the first
C21_Witness ==
    \E s \in 1..Len(scans) :
        \E b \in 1..Len(scans[s].batches) :
            /\ scans[s].batches[b].pc = "port_check"
            /\ scans[s].batches[b].port = scans[s].start_port + 50
            /\ Cardinality(scans[s].probed) = 50

\* the number of start clicks the panel has accepted
StartedScans ==
    Len(scans) + Len(scan_sends)
        + Cardinality({ i \in 1..Len(rx) : rx[i].op = "ScanIp" })

\* scan task s runs the scan the panel has started last
CurrentScan(s) == s = Len(scans) /\ s = StartedScans

\* the number of entries of scan_results that the probes of scan s pushed
ResultsOf(s) ==
    Cardinality({ i \in 1..Len(scan_results) : scan_results[i].scan = s })

\* the number of found-entries of scan_logs that the probes of scan s pushed
FoundOf(s) ==
    Cardinality({ i \in 1..Len(scan_logs) :
                    scan_logs[i].kind = "found" /\ scan_logs[i].scan = s })

\* no probe of scan s is in flight
NoProbeInFlight(s) ==
    \A b \in 1..Len(scans[s].batches) : ProbesInFlight(scans[s].batches[b]) = 0

\* C22 as stated: the entries of ScanResult that the current scan has
\* pushed are at most its open_count, and with none of its probes in flight
\* its open_count, the number of its entries in ScanResult and the number of
\* its found-entries in ScanLog are equal.
C22_OpenCountAndEntries ==
    \A s \in 1..Len(scans) :
        CurrentScan(s) =>
            /\ ResultsOf(s) <= scans[s].open_ports
            /\ (scans[s].pc # "spawned" /\ NoProbeInFlight(s)) =>
                  /\ scans[s].open_ports = ResultsOf(s)
                  /\ ResultsOf(s) = FoundOf(s)

\* a probe of the batch task b of scan s finds its port closed in this step
ClosedProbeReturns(s, b) ==
    scans'[s].batches[b].run_closed < scans[s].batches[b].run_closed

\* C23 as stated: the step in which a probe finds its port closed appends
\* a closed-port entry to ScanLog, and no step of a scan appends anything
\* to the primary event sink.
C23_ClosedPortLogged ==
    [][/\ (\E s \in 1..Len(scans) : \E b \in 1..Len(scans[s].batches) :
               ClosedProbeReturns(s, b))
          => (/\ Len(scan_logs') = Len(scan_logs) + 1
              /\ scan_logs'[Len(scan_logs')].kind = "closed")
       /\ messages' = messages]_vars

\* the (address, port) pairs of the ranges of the form f
ScanPairs(f) ==
    { << i, p >> : i \in IpMeaning(f.start_ip)..IpMeaning(f.end_ip),
                   p \in PortMeaning(f.start_port)..PortMeaning(f.end_port) }

\* C24 as stated: a scan that was not cancelled and has run to its end has
\* spawned a probe for every pair of its ranges, for no pair twice and for
\* no other pair, and ScanResult holds one entry for each pair that accepts
\* a connection and nothing else.
C24_EveryPairProbedOnce ==
    \A s \in 1..Len(scans) :
        (scans[s].pc = "done" /\ ~ scans[s].is_cancelled) =>
            /\ scans[s].probed = ScanPairs(form)
            /\ scans[s].reprobed = {}
            /\ Len(scan_results) = Cardinality(ScanPairs(form) \cap OpenTargets)
            /\ \A t \in ScanPairs(form) \cap OpenTargets :
                  \E j \in 1..Len(scan_results) :
                      /\ IpMeaning(scan_results[j].ip) = t[1]
                      /\ scan_results[j].port = t[2]

RECURSIVE CompletedIn(_, _)
\* the number of addresses whose port scan has returned, in the first n
\* batch tasks of bs
CompletedIn(bs, n) ==
    IF n = 0 THEN 0 ELSE CompletedIn(bs, n - 1) + (bs[n].ip - bs[n].lo)

\* the number of addresses of scan s whose port scan has returned, after
\* this step
CompletedIps(s) == CompletedIn(scans'[s].batches, Len(scans'[s].batches))

\* scan task s appends a progress entry in this step
AppendsProgress(s) ==
    /\ scans'[s].emitted = Append(scans[s].emitted, "progress")
    /\ scan_logs' # scan_logs
    /\ scan_logs'[Len(scan_logs')].kind = "progress"

\* C25 as stated: a step of a scan appends a progress entry exactly when
\* the count k it reports has reached a multiple of 5 or the total, and the
\* k of the entry is at most the number of addresses whose port scan has
\* completed.
C25_ProgressOfCompleted ==
    [][\A s \in 1..Len(scans) :
          /\ scans'[s].scanned # scans[s].scanned =>
                (AppendsProgress(s) <=>
                    (\/ scans'[s].scanned % 5 = 0
                     \/ scans'[s].scanned = scans'[s].total_ips))
          /\ AppendsProgress(s) =>
                /\ scan_logs'[Len(scan_logs')].x = scans'[s].scanned
                /\ scan_logs'[Len(scan_logs')].y = scans'[s].total_ips
                /\ scan_logs'[Len(scan_logs')].x <= CompletedIps(s)]_vars

\* the list a is a prefix of the list b
IsPrefix(a, b) == Len(a) <= Len(b) /\ SubSeq(b, 1, Len(a)) = a

\* C26 as stated: the step that starts a scan leaves ScanResult and ScanLog
\* empty, and an entry of ScanLog, the "scan task started" entry of the
\* ScanIp handler among them, is removed by no step but the start of the
\* next scan.
C26_ClearedAtStartOnly ==
    [][/\ StartedScans' = StartedScans + 1 =>
              (scan_results' = << >> /\ scan_logs' = << >>)
       /\ ~ IsPrefix(scan_logs, scan_logs') =>
              StartedScans' = StartedScans + 1]_vars

\* the four numbers an address text of ConvTexts is made of; << >> when the
\* text is no address a.b.c.d of four numbers of 0 to 255
OctetsMeant(t) ==
    CASE t = << "0", ".", "0", ".", "0", ".", "0" >> -> << 0, 0, 0, 0 >>
      [] t = << "2", "5", "5", ".", "2", "5", "5", ".", "2", "5", "5", ".", "2", "5", "5" >>
            -> << 255, 255, 255, 255 >>
      [] t = << "1", ".", "0", ".", "0", ".", "1" >> -> << 1, 0, 0, 1 >>
      [] t = << "1", "9", "2", ".", "1", "6", "8", ".", "1", ".", "1", "0", "0" >>
            -> << 192, 168, 1, 100 >>
      [] t = << "1", "0", ".", "2", "0", ".", "3", "0", ".", "4", "0" >>
            -> << 10, 20, 30, 40 >>
      [] OTHER -> << >>

\* the 32-bit number of four octets, as the pair of its halves
OrdinalOf(o) == << 256 * o[1] + o[2], 256 * o[3] + o[4] >>

\* C27: an address text a.b.c.d of four numbers of 0 to 255 is converted by
\* ip_to_u32 to its 32-bit number and back by u32_to_ip to the same text,
\* and a number of 0 to 2^32 - 1 is converted by u32_to_ip to a text that
\* ip_to_u32 converts back to the same number.
C27_IpRoundTrip ==
    /\ (conv.text_done /\ OctetsMeant(conv.text) # << >>) =>
          /\ conv.as_u32 = OrdinalOf(OctetsMeant(conv.text))
          /\ conv.text_back = conv.text
    /\ conv.u32_done =>
          /\ conv.u32_back = conv.u32
          /\ OctetsMeant(conv.as_text) # << >> =>
                OrdinalOf(OctetsMeant(conv.as_text)) = conv.u32

\* 192.168.1.100 has made the round trip as a text and 255.255.255.255 as
\* a number
C27_Witness ==
    /\ conv.text_done /\ conv.u32_done
    /\ conv.text = << "1", "9", "2", ".", "1", "6", "8", ".", "1", ".", "1", "0", "0" >>
    /\ conv.as_u32 = << 49320, 356 >>
    /\ conv.text_back = conv.text
    /\ conv.u32 = << 65535, 65535 >>
    /\ conv.as_text = << "2", "5", "5", ".", "2", "5", "5", ".", "2", "5", "5", ".",
                         "2", "5", "5" >>
    /\ conv.u32_back = << 65535, 65535 >>

\* the hex digits among the characters of the texts that are decoded
HexDigitChars == {"0", "4", "a", "F"}

\* the upper case of a character
UpperOf(c) == IF c = "a" THEN "A" ELSE c

RECURSIVE RenderUpperHex(_)
\* the bytes as two uppercase hex digits each, without separator
RenderUpperHex(b) ==
    IF b = << >> THEN << >> ELSE FormatX02(Head(b)) \o RenderUpperHex(Tail(b))

\* C28: a text of an even number of hex digits, without spaces, is decoded
\* by hex_to_bytes to half as many bytes as it has characters, and the
\* bytes written as two uppercase hex digits each, without separator, are
\* the text in upper case; is_valid_hex_string accepts the text.
C28_HexRoundTrip ==
    (/\ conv.hex_done
     /\ Len(conv.text) % 2 = 0
     /\ \A k \in 1..Len(conv.text) : conv.text[k] \in HexDigitChars) =>
        /\ ~ conv.decoded.panic
        /\ conv.valid
        /\ 2 * Len(conv.decoded.bytes) = Len(conv.text)
        /\ RenderUpperHex(conv.decoded.bytes)
              = [k \in 1..Len(conv.text) |-> UpperOf(conv.text[k])]

\* the text aF04 has been decoded to the bytes 175 and 4
C28_Witness ==
    /\ conv.hex_done
    /\ conv.text = << "a", "F", "0", "4" >>
    /\ conv.decoded.bytes = << 175, 4 >>

\* the value of a hex digit among the characters of the model, -1 for a
\* character that is none
HexValueOf(c) ==
    CASE c = "0" -> 0 [] c = "1" -> 1 [] c = "4" -> 4 [] c = "a" -> 10
      [] c = "F" -> 15 [] OTHER -> -1

RECURSIVE PairsMeant(_)
\* the bytes of the consecutive pairs of characters of a text without
\* spaces: a pair of two hex digits gives its byte, any other pair and a
\* last character without partner give none
PairsMeant(s) ==
    IF Len(s) < 2 THEN << >>
    ELSE (IF HexValueOf(s[1]) >= 0 /\ HexValueOf(s[2]) >= 0
          THEN << 16 * HexValueOf(s[1]) + HexValueOf(s[2]) >>
          ELSE << >>) \o PairsMeant(Tail(Tail(s)))

\* the bytes a Hex payload stands for
HexBytesMeant(s) == PairsMeant(SelectSeq(s, LAMBDA c : c # " "))

\* C29: the send task of a Hex payload never fails in the encoding: once
\* it has encoded, it has not panicked, and what it has written in full is
\* the bytes of the valid pairs of the payload without its spaces, in order.
C29_HexBestEffort ==
    \A i \in 1..Len(send_tasks) :
        (send_tasks[i].enc = "Hex" /\ send_tasks[i].pc # "spawned") =>
            /\ send_tasks[i].pc # "panicked"
            /\ \A k \in 1..Len(written) :
                  (written[k].task = i /\ written[k].ok) =>
                      written[k].bytes = HexBytesMeant(send_tasks[i].data)

\* C30: a failure of the file log does not abort the operation in
\* progress.  When the creation of the data file fails in Connect, the
\* handler reports it, stays connected, puts the write half in the channel
\* and spawns the receiver; when the write to the data file fails in a send
\* task after its write to the socket, the task reports it and goes on to
\* return the write half; when it fails in a receiver after a read, the
\* receiver reports it and reads again.
C30_FileFailureNotFatal ==
    [][/\ (mpc = "connecting" /\ mpc' = "putting" /\ cur_cmd'.file_err) =>
             /\ has_connection'
             /\ LastKind("file_create_failed")'
       /\ (mpc = "putting" /\ mpc' = "recv" /\ cur_cmd.file_err) =>
             /\ has_connection'
             /\ conn_rx' = Append(conn_rx, cur_cmd.stream)
             /\ Len(recv_tasks') = Len(recv_tasks) + 1
             /\ recv_tasks'[Len(recv_tasks')].stream = cur_cmd.stream
             /\ recv_tasks'[Len(recv_tasks')].pc = "spawned"
       /\ \A i \in 1..Len(send_tasks) :
             (/\ send_tasks[i].pc = "written"
              /\ send_tasks'[i] # send_tasks[i]
              /\ faults' = faults + 1) =>
                 /\ send_tasks'[i].pc = "returning"
                 /\ LastKind("file_write_failed")'
       /\ \A i \in 1..Len(recv_tasks) :
             (/\ recv_tasks[i].pc = "render"
              /\ recv_tasks'[i] # recv_tasks[i]
              /\ recv_env' = recv_env + 1) =>
                 /\ recv_tasks'[i].pc = "reading"
                 /\ LastKind("file_write_failed")']_vars

\* after a failed creation of the data file the session is connected with
\* the write half in the channel and the receiver reading, and before that
\* a send task has returned the write half after a failed write to the
\* file and a receiver has gone on after one
C30_Witness ==
    /\ has_connection /\ mpc = "recv"
    /\ conn_rx # << >>
    /\ CountKind(messages, "file_create_failed") > 0
    /\ \E i \in 1..Len(send_tasks) : send_tasks[i].pc = "done"
    /\ CountKind(messages, "file_write_failed") >= 2
    /\ \E i \in 1..Len(recv_tasks) :
          /\ recv_tasks[i].file # 0
          /\ recv_tasks[i].pc = "reading"
          /\ \E k \in 1..Len(recv_tasks[i].emitted) :
                recv_tasks[i].emitted[k] = "file_write_failed"
    /\ \E i \in 1..Len(recv_tasks) :
          recv_tasks[i].file = 0 /\ recv_tasks[i].pc = "reading"

\* the k-th address from the address a on, within the range of u32
AddressAt(a, k) == << a[1] + ((a[2] + k) \div 65536), (a[2] + k) % 65536 >>

\* the addresses of the range that is partitioned
RangeAddresses ==
    { AddressAt(conv.start, k) : k \in 0..(TotalIps(conv.start, conv.end) - 1) }

\* the addresses of the batch bt
BatchAddresses(bt) ==
    { a \in RangeAddresses : LeU32(bt.lo, a) /\ LeU32(a, bt.hi) }

\* C31: the batches of scan_ip_range are contiguous and disjoint and cover
\* the range from start_ip to end_ip, also when it ends at the highest
\* address: the function does not panic in the partition, every address is
\* in exactly one batch, and a scan that has joined its batch tasks has
\* counted every address once.
C31_BatchesPartition ==
    /\ conv.pc # "panicked"
    /\ conv.pc \in {"joining", "done"} =>
          /\ \A a \in RangeAddresses :
                Cardinality({ b \in 1..Len(conv.batches) :
                                 a \in BatchAddresses(conv.batches[b]) }) = 1
          /\ \A b \in 1..Len(conv.batches) :
                /\ LeU32(conv.batches[b].lo, conv.batches[b].hi)
                /\ b > 1 => conv.batches[b].lo
                               = AddressAt(conv.batches[b - 1].hi, 1)
    /\ conv.revisited = {}
    /\ conv.pc = "done" =>
          /\ conv.final_scanned = conv.total_ips
          /\ conv.visited = RangeAddresses

\* C32: the number of batch tasks scan_ip_range spawns is at most the
\* thread count it reports, the smaller of the number of addresses and the
\* number of cores.
C32_BatchesWithinThreads ==
    conv.pc \in {"joining", "done"} =>
        /\ conv.thread_count
              = (IF TotalIps(conv.start, conv.end) < cpu_cores
                 THEN TotalIps(conv.start, conv.end) ELSE cpu_cores)
        /\ Len(conv.batches) <= conv.thread_count

\* C33: a put into the channel of the write halves never blocks: the
\* Connect handler is never at its conn_tx.send with the channel full, and
\* no send task is at its conn_tx_clone.send with the channel full.
C33_PutNeverBlocks ==
    /\ ~ (conv.mpc = "putting" /\ conv.slot = ConnChanCap)
    /\ ~ (conv.returning > 0 /\ conv.slot = ConnChanCap)

\* C34: the end of a chunk of scan_ports is the smaller of chunk start + 49
\* and end_port, within the range of 16 bits: no batch task panics, a task
\* in a chunk has that end, and a scan that has run to its end has probed
\* every port of its range on every address, the port 65535 included.
C34_ChunkEndInRange ==
    \A s \in 1..Len(scans) :
        /\ \A b \in 1..Len(scans[s].batches) :
              LET bt == scans[s].batches[b]
              IN  /\ bt.pc # "panicked"
                  /\ bt.pc \in {"port_check", "join"} =>
                        /\ bt.chunk_end <= 65535
                        /\ bt.chunk_end
                              = (IF bt.chunk_start + 49 < scans[s].end_port
                                 THEN bt.chunk_start + 49 ELSE scans[s].end_port)
        /\ (scans[s].pc = "done" /\ ~ scans[s].is_cancelled) =>
              \A p \in scans[s].start_port..scans[s].end_port :
                  \E t \in scans[s].probed : t[2] = p

\* C35: a Send that is handled after a Connect has succeeded and whose task
\* reports "sent" has written to the connection of the most recent
\* successful Connect: the write half the handler takes for the task is that
\* of the latest connection, and the task that reports "sent" has written
\* all its bytes to the write half it was given.
C35_SentOnLatestConnection ==
    [][/\ (Len(send_tasks') = Len(send_tasks) + 1) =>
             (send_tasks'[Len(send_tasks')].stream = LatestStream)
       /\ \A i \in 1..Len(send_tasks) :
             (send_tasks[i].pc = "written" /\ send_tasks'[i].pc = "returning") =>
                 (/\ LastKind("sent")' \/ LastKind("file_write_failed")'
                  /\ \E k \in 1..Len(written) :
                        /\ written[k].task = i
                        /\ written[k].ok
                        /\ written[k].conn = send_tasks[i].stream)]_vars

\* C36: a scan that has logged its summary, cancelled or not, has no probe
\* left that will count a port or push an entry, its open_count stays the
\* number of the summary, and at the summary that number is the number of
\* its entries in ScanResult.
C36_QuietAfterSummary ==
    [][\A s \in 1..Len(scans') :
         (scans'[s].pc = "done" /\ Len(scans'[s].final) = 2) =>
            (/\ \A b \in 1..Len(scans'[s].batches) :
                  /\ scans'[s].batches[b].run_open = {}
                  /\ scans'[s].batches[b].counted = {}
                  /\ scans'[s].batches[b].resulted = {}
             /\ scans'[s].open_ports = scans'[s].final[2]
             /\ (s <= Len(scans) /\ scans[s].pc = "joining") =>
                   (ResultsOf(s)' = scans'[s].final[2]))]_vars

\* the receiver i belongs to a connection the command loop has given up: a
\* later Connect has spawned a receiver of its own, or the loop is back at
\* rx.recv() with has_connection false after a Disconnect or a Connect
Abandoned(i) ==
    \/ i < Len(recv_tasks)
    \/ mpc = "recv" /\ ~ has_connection

\* the receivers that have not returned
LiveReceivers == { i \in 1..Len(recv_tasks) : recv_tasks[i].pc # "done" }

\* C37: at most one receiver is live at any time, and the receiver of a
\* connection that a Disconnect or a replacing Connect has abandoned pushes
\* no further "received" event.
C37_OneLiveReceiver ==
    [][/\ Cardinality(LiveReceivers') <= 1
       /\ \A i \in 1..Len(recv_tasks) :
             (recv_tasks[i].pc = "render" /\ recv_tasks'[i].pc = "reading") =>
                 ~ Abandoned(i)]_vars

\* the send tasks that have pushed their outcome event
Reported(tasks) ==
    { i \in 1..Len(tasks) : tasks[i].pc \in {"returning", "done", "failed"} }

\* C38: every Send command has exactly one outcome: its handler pushes
\* "connection busy" or "not connected" and spawns nothing, or spawns one
\* send task and pushes nothing; no send task ends without an event, and
\* the "sent" and "send failed" events are one per task that has reported.
C38_OneOutcomePerSend ==
    [][/\ (mpc = "recv" /\ rx # << >> /\ Head(rx).op = "Send" /\ rx' = Tail(rx)) =>
             \/ /\ messages' = Append(messages, Ev("busy", << >>, ""))
                /\ send_tasks' = send_tasks
             \/ /\ messages' = Append(messages, Ev("not_connected", << >>, ""))
                /\ send_tasks' = send_tasks
             \/ /\ messages' = messages
                /\ Len(send_tasks') = Len(send_tasks) + 1
       /\ \A i \in 1..Len(send_tasks') : send_tasks'[i].pc # "panicked"
       /\ CountKind(messages', "sent") + CountKind(messages', "send_failed")
             = Cardinality(Reported(send_tasks'))]_vars

\* the send task has put its bytes on its socket, or has failed to
HasWritten(t) == t.pc \in {"written", "write_err", "returning", "done", "failed"}

\* the send task has pushed its "sent" event
HasSent(t) == t.pc \in {"returning", "done"}

\* C39: the send tasks write their payloads and push their "sent" events
\* in the order in which their Send commands were submitted, which is the
\* order in which they were spawned: when a task writes, no task spawned
\* after it has written, and when a task pushes "sent", no task spawned
\* after it has pushed "sent".
C39_SendsInOrder ==
    [][\A i \in 1..Len(send_tasks) :
         /\ (send_tasks[i].pc = "spawned" /\ HasWritten(send_tasks'[i])) =>
                \A j \in (i + 1)..Len(send_tasks) : ~ HasWritten(send_tasks[j])
         /\ (send_tasks[i].pc = "written" /\ HasSent(send_tasks'[i])) =>
                \A j \in (i + 1)..Len(send_tasks) : ~ HasSent(send_tasks[j])]_vars

\* the scan tasks that have not run to their end
RunningScans == { s \in 1..Len(scans) : scans[s].pc # "done" }

\* C40: at most one scan task runs on ScanResult and ScanLog at any time,
\* and once a new scan has been started the lists receive nothing from an
\* earlier one: a step that appends an entry of scan s to ScanResult, or in
\* which scan s pushes entries to ScanLog, its cancellation and summary
\* among them, is a step of the scan that was started last.
C40_OneScanPerLists ==
    [][/\ Cardinality(RunningScans') <= 1
       /\ (Len(scan_results') = Len(scan_results) + 1) =>
             scan_results'[Len(scan_results')].scan = StartedScans'
       /\ \A s \in 1..Len(scans) :
             (\/ Len(scans'[s].emitted) > Len(scans[s].emitted)
              \/ FoundOf(s)' > FoundOf(s))
             => s = StartedScans']_vars
====
